---- MODULE Spec2Model ----
(***************************************************************************)
(* Batch damage analysis, narrative merge, catalog part matching,          *)
(* retrieval, estimate synthesis and the estimate pipeline of the RAG      *)
(* estimate service (services/rag_service.py and                           *)
(* services/vehicle_damage_service.py).                                    *)
(*                                                                         *)
(* Text is modelled in two ways.  The part matcher works on characters, so *)
(* its strings are sequences of one-character strings.  The narrative      *)
(* merger only concatenates whole fields, so its strings are sequences of  *)
(* fragments (fields and literal separators).                              *)
(***************************************************************************)
EXTENDS Integers, Sequences, FiniteSets, TLC

VARIABLES
    \* ---- batch run (detect_damage_batch / classify_images_only) ----
    fn,                 \* which batch function is running
    bucket_url,         \* Optional[str]: <<>> is None, <<u>> is a URL
    image_urls,         \* Optional[list[str]]: <<>> is None, <<l>> is the list l
    max_workers,        \* size of the thread pool
    pc,                 \* position of the orchestrating thread
    all_image_urls,     \* the resolved list of image references
    futures,            \* one record per submitted task, in submission order
    detections,         \* detect_damage_batch: results in completion order
    classified_images,  \* classify_images_only: side -> list of references
    listing,            \* what list_images_from_url did: <<>> if not called
    response,           \* the returned response, once pc = "done"
    \* ---- narrative merger (_merge_damage_descriptions) ----
    damages,            \* the list of findings passed to the merger
    vehicle_info,       \* Optional[VehicleInfo]: <<>> is None
    hash_order,         \* iteration order of a set of str in this process
    ncalls,             \* number of merger calls made so far
    merged,             \* the string returned by the last merger call
    prev_merged,        \* the string returned by the call before it
    llm_status,         \* merge_damage_descriptions: "none", "returned", "raised"
    llm_merged,         \* the string merge_damage_descriptions returned
    \* ---- part matcher (_match_part_with_pss) ----
    part_description,   \* the free-text description (characters)
    pss_parts_map,      \* the catalog index: entries in insertion order
    match_pc,           \* "ready" before the call, "returned" after it
    match_result,       \* the returned part id, or None
    match_scanned,      \* number of keys the call's loop visited
    \* ---- estimate synthesizer (generate_estimate) ----
    est_pc,             \* "ready" before the call, "returned" or "raised" after
    est_prompt,         \* custom_prompt: "none", "valid" or "invalid" template
    est_pss_map,        \* the index _extract_pss_parts built from pss_data
    est_inference,      \* what estimate_model.invoke did: <<>> raised, <<e>> returned e
    est_invocations,    \* number of estimate_model.invoke calls made
    est_result,         \* the GeneratedEstimate returned, a list of categories
    \* ---- retrieval client (retrieve_similar_chunks) ----
    ret_pc,             \* "ready" before the call, "returned" or "raised" after
    ret_query,          \* damage_description, the query text
    ret_top_k,          \* top_k
    ret_connected,      \* what is_connected() answered
    ret_search,         \* what search did: <<>> raised or not called, <<hits>>
    ret_searches,       \* number of search calls made
    ret_chunks,         \* the returned list of chunks
    \* ---- estimate pipeline (run_rag_pipeline) ----
    request,            \* the request object
    pipe_pc,            \* position in run_rag_pipeline
    stages,             \* the stages entered so far, in order
    search_query,       \* Optional[str]: the retrieval query
    retrieved_chunks,   \* the chunks retrieval returned
    pipe_calls,         \* calls made: retrieval calls and inference calls
    rag_response,       \* the RAGEstimateResponse, once pipe_pc = "done"
    \* ---- catalog indexer (_extract_pss_parts) ----
    idx_pss_data,       \* Optional[dict]: <<>> is None, <<d>> is the document d
    idx_pc,             \* "ready", "indexed" after the call, "matched"
    idx_parts_map,      \* the returned map: entries in insertion order
    idx_query,          \* a description looked up in the returned map
    idx_found,          \* the part id found for it, or None
    \* ---- per-image analyzer (detect_damage_single_image) ----
    an_pc,              \* "ready" before the call, "returned" or "raised" after
    an_vehicle,         \* Optional[VehicleInfo]: <<>> is None
    an_human,           \* Optional[str]: human_description
    an_prompt,          \* the prompt the call built
    an_infer,           \* what the inference call did: <<>> raised, <<r>> returned r
    an_result           \* the DamageDetectionResult returned

batch_vars == <<fn, bucket_url, image_urls, max_workers, pc, all_image_urls,
                futures, detections, classified_images, listing, response>>
merge_vars == <<damages, vehicle_info, hash_order, ncalls, merged,
                prev_merged, llm_status, llm_merged>>
match_vars == <<part_description, pss_parts_map, match_pc, match_result,
                match_scanned>>
est_vars == <<est_pc, est_prompt, est_pss_map, est_inference, est_invocations,
              est_result>>
ret_vars == <<ret_pc, ret_query, ret_top_k, ret_connected, ret_search,
              ret_searches, ret_chunks>>
pipe_vars == <<request, pipe_pc, stages, search_query, retrieved_chunks,
               pipe_calls, rag_response>>
idx_vars == <<idx_pss_data, idx_pc, idx_parts_map, idx_query, idx_found>>
an_vars == <<an_pc, an_vehicle, an_human, an_prompt, an_infer, an_result>>
vars == <<batch_vars, merge_vars, match_vars, est_vars, ret_vars, pipe_vars,
          idx_vars, an_vars>>

\* Python's None where the other values are strings.
None == "None"

(***************************************************************************)
(* Bounds of the model.                                                    *)
(***************************************************************************)
MaxDescLen == 3     \* longest part description, in characters
MaxKeys == 2        \* most entries in the catalog index
MaxFindings == 2    \* longest list of findings given to the merger
MaxCalls == 2       \* most merger calls observed in one behaviour
MaxImages == 2      \* longest list of image references in a batch
MaxWorkers == 2     \* largest max_workers given to a batch
MaxCategories == 1  \* most categories in one inference output
MaxOperations == 1  \* most operations under one category
MaxTopK == 3        \* largest top_k given to retrieval
MaxCatalogCategories == 1  \* most categories in a catalog document
MaxDetails == 2  \* most part details in one catalog document
MaxRawDamages == 2  \* most damage dicts in one raw inference output
MaxHits == 3        \* most hits one search returns

(***************************************************************************)
(* Sequences in general.                                                   *)
(***************************************************************************)
Range(s) == {s[i] : i \in 1..Len(s)}

SeqsUpTo(S, n) == UNION {[1..k -> S] : k \in 0..n}

(***************************************************************************)
(* Python str methods, on sequences of characters.                         *)
(***************************************************************************)
LowerChars == {"a", "b", " "}
Chars == LowerChars \cup {"A"}

IsSpace(c) == c = " "

\* str.lower()
LowerChar(c) == IF c = "A" THEN "a" ELSE c
Lower(s) == [i \in 1..Len(s) |-> LowerChar(s[i])]

\* str.strip(): drop leading and trailing whitespace
RECURSIVE LStrip(_)
LStrip(s) ==
    IF s # <<>> /\ IsSpace(Head(s)) THEN LStrip(Tail(s)) ELSE s

RECURSIVE RStrip(_)
RStrip(s) ==
    IF s # <<>> /\ IsSpace(s[Len(s)])
    THEN RStrip(SubSeq(s, 1, Len(s) - 1))
    ELSE s

Strip(s) == RStrip(LStrip(s))

\* str.split() with no argument: the maximal runs of non-whitespace
RECURSIVE SplitFrom(_, _, _)
SplitFrom(s, i, word) ==
    IF i > Len(s)
    THEN IF word = <<>> THEN <<>> ELSE <<word>>
    ELSE IF IsSpace(s[i])
         THEN IF word = <<>>
              THEN SplitFrom(s, i + 1, <<>>)
              ELSE <<word>> \o SplitFrom(s, i + 1, <<>>)
         ELSE SplitFrom(s, i + 1, Append(word, s[i]))

Split(s) == SplitFrom(s, 1, <<>>)

\* the operator "in" on two strings: needle in hay
Contains(needle, hay) ==
    \E i \in 0..(Len(hay) - Len(needle)) :
        SubSeq(hay, i + 1, i + Len(needle)) = needle

(***************************************************************************)
(* Narrative merger: RAGService._merge_damage_descriptions.                *)
(* A finding is a DamageDescription; the merger reads part, severity and   *)
(* type only.  A string is a sequence of fragments.                        *)
(***************************************************************************)
PartNames == {"Hood", "Door"}
Severities == {"Minor", "Medium", "Major", "Unknown"}
DamageTypes == {"Dent", "Scratch"}

DamageDescription == [part : PartNames, severity : Severities, type : DamageTypes]

VehicleInfo == [year : {"2020"}, make : {"Subaru"}, model : {"Outback"}]

\* the orders in which a process may iterate a set of type strings; str
\* hashes are salted per process, so the order is fixed within one process
\* and may differ in the next
HashOrders ==
    {o \in [1..Cardinality(DamageTypes) -> DamageTypes] : Range(o) = DamageTypes}

\* list(set(...)) under the iteration order of the process
ListOfSet(S, order) == SelectSeq(order, LAMBDA t : t \in S)

\* sep.join(list), each element and sep being strings (fragment sequences)
RECURSIVE Join(_, _)
Join(sep, list) ==
    IF list = <<>> THEN <<>>
    ELSE IF Len(list) = 1 THEN Head(list)
    ELSE Head(list) \o sep \o Join(sep, Tail(list))

\* the keys of damages_by_part, in insertion (first occurrence) order
RECURSIVE GroupKeys(_, _)
GroupKeys(ds, seen) ==
    IF ds = <<>> THEN <<>>
    ELSE IF Head(ds).part \in seen
         THEN GroupKeys(Tail(ds), seen)
         ELSE <<Head(ds).part>> \o GroupKeys(Tail(ds), seen \cup {Head(ds).part})

\* damages_by_part[part]
PartDamages(ds, part) == SelectSeq(ds, LAMBDA d : d.part = part)

\* variant: the tests for "Major" and "Medium" are swapped
MaxSeverityMediumFirst(severities) ==
    IF "Medium" \in severities THEN "Medium"
    ELSE IF "Major" \in severities THEN "Major"
    ELSE "Minor"

MaxSeverity(severities) ==
    IF "Major" \in severities THEN "Major"
    ELSE IF "Medium" \in severities THEN "Medium"
    ELSE "Minor"

\* variant: the severity of the first finding of the part is rendered
RenderPartFirstSeverity(part, part_damages, order) ==
    LET types == ListOfSet({part_damages[i].type : i \in 1..Len(part_damages)}, order)
    IN  <<part, " (", part_damages[1].severity, " ">>
            \o Join(<<", ">>, [i \in 1..Len(types) |-> <<types[i]>>])
            \o <<")">>

\* f"{part} ({max_severity} {', '.join(types)})"
RenderPart(part, part_damages, order) ==
    LET severities == {part_damages[i].severity : i \in 1..Len(part_damages)}
        types == ListOfSet({part_damages[i].type : i \in 1..Len(part_damages)}, order)
    IN  <<part, " (", MaxSeverity(severities), " ">>
            \o Join(<<", ">>, [i \in 1..Len(types) |-> <<types[i]>>])
            \o <<")">>

\* the local list "parts" when the loop over damages_by_part ends
MergeParts(ds, order) ==
    LET keys == GroupKeys(ds, {})
    IN  [i \in 1..Len(keys) |-> RenderPart(keys[i], PartDamages(ds, keys[i]), order)]

VehicleStr(vinfo) ==
    IF vinfo # <<>>
    THEN <<"The ", vinfo[1].year, " ", vinfo[1].make, " ", vinfo[1].model, " shows ">>
    ELSE <<"The vehicle shows ">>

NoDamageText == <<"No visible damage detected.">>

\* variant: no early return for an empty list
MergeWithoutEmptyCheck(ds, vinfo, order) ==
    VehicleStr(vinfo) \o <<"damage to: ">>
        \o Join(<<"; ">>, MergeParts(ds, order)) \o <<".">>

_merge_damage_descriptions(ds, vinfo, order) ==
    IF ds = <<>>
    THEN NoDamageText
    ELSE VehicleStr(vinfo) \o <<"damage to: ">>
            \o Join(<<"; ">>, MergeParts(ds, order)) \o <<".">>

(***************************************************************************)
(* Narrative merger, fluent variant:                                       *)
(* VehicleDamageService.merge_damage_descriptions.  It returns its own     *)
(* sentinel on an empty list and otherwise asks the language model.        *)
(***************************************************************************)
NoDamageOnVehicleText == <<"No visible damage detected on the vehicle.">>

\* response.text.strip() of a model reply: some narrative, or nothing
LlmTexts == {<<"narrative">>, <<>>}

\* the outcomes of one call: [status, text]
merge_damage_descriptions(vinfo, ds) ==
    IF ds = <<>>
    THEN {[status |-> "returned", text |-> NoDamageOnVehicleText]}
    ELSE IF vinfo = <<>>
         THEN {[status |-> "raised", text |-> <<>>]}
         ELSE {[status |-> "returned", text |-> t] : t \in LlmTexts}
                \cup {[status |-> "raised", text |-> <<>>]}

MergeIdle ==
    /\ damages = <<>>
    /\ ncalls = 0
    /\ merged = <<>>
    /\ prev_merged = <<>>
    /\ llm_status = "idle"
    /\ llm_merged = <<>>

MergeInit ==
    /\ damages \in SeqsUpTo(DamageDescription, MaxFindings)
    /\ vehicle_info \in {<<>>} \cup {<<v>> : v \in VehicleInfo}
    /\ hash_order \in HashOrders
    /\ ncalls = 0
    /\ merged = <<>>
    /\ prev_merged = <<>>
    /\ llm_status = "none"
    /\ llm_merged = <<>>

\* one call of _merge_damage_descriptions(damages, vehicle_info)
MergeCall ==
    /\ llm_status = "none"
    /\ ncalls < MaxCalls
    /\ ncalls' = ncalls + 1
    /\ merged' = _merge_damage_descriptions(damages, vehicle_info, hash_order)
    /\ prev_merged' = merged
    /\ UNCHANGED <<damages, vehicle_info, hash_order, llm_status, llm_merged,
                   batch_vars, match_vars, est_vars, ret_vars, pipe_vars, idx_vars, an_vars>>

\* the service process is restarted between two calls: new hash salt
RestartProcess ==
    /\ llm_status = "none"
    /\ ncalls >= 1
    /\ hash_order' \in HashOrders \ {hash_order}
    /\ UNCHANGED <<damages, vehicle_info, ncalls, merged, prev_merged,
                   llm_status, llm_merged, batch_vars, match_vars, est_vars, ret_vars, pipe_vars, idx_vars, an_vars>>

\* one call of merge_damage_descriptions(vehicle_info, damages)
LlmMergeCall ==
    /\ llm_status = "none"
    /\ ncalls = 0
    /\ \E out \in merge_damage_descriptions(vehicle_info, damages) :
          /\ llm_status' = out.status
          /\ llm_merged' = out.text
    /\ UNCHANGED <<damages, vehicle_info, hash_order, ncalls, merged,
                   prev_merged, batch_vars, match_vars, est_vars, ret_vars, pipe_vars, idx_vars, an_vars>>

(***************************************************************************)
(* Part matcher: RAGService._match_part_with_pss.                          *)
(* pss_parts_map is a dict; a dict iterates in insertion order, so it is a  *)
(* sequence of entries [key, id] with distinct keys.                       *)
(***************************************************************************)
PartIds == <<"id1", "id2", "id3", "id4">>

HasKey(map, k) == \E i \in 1..Len(map) : map[i].key = k

Lookup(map, k) == map[CHOOSE i \in 1..Len(map) : map[i].key = k].id

\* variant: the token sets must share more than 2 tokens
TokenOverlapAboveTwo(pss_desc, part_lower) ==
    Cardinality(Range(Split(pss_desc)) \cap Range(Split(part_lower))) > 2

\* one iteration of the loop over pss_parts_map.items(): does this key match
TokenOverlap(pss_desc, part_lower) ==
    Cardinality(Range(Split(pss_desc)) \cap Range(Split(part_lower))) >= 2

SubstringMatch(pss_desc, part_lower) ==
    Contains(part_lower, pss_desc) \/ Contains(pss_desc, part_lower)

\* variant: one pass over the keys for token overlap, then a second pass
\* for substring containment
RECURSIVE TokenPass(_, _, _)
TokenPass(part_lower, map, i) ==
    IF i > Len(map)
    THEN None
    ELSE IF TokenOverlap(map[i].key, part_lower)
         THEN map[i].id
         ELSE TokenPass(part_lower, map, i + 1)

RECURSIVE SubstringPass(_, _, _)
SubstringPass(part_lower, map, i) ==
    IF i > Len(map)
    THEN None
    ELSE IF SubstringMatch(map[i].key, part_lower)
         THEN map[i].id
         ELSE SubstringPass(part_lower, map, i + 1)

PartialMatchTwoPasses(part_lower, map, i) ==
    IF TokenPass(part_lower, map, i) # None
    THEN TokenPass(part_lower, map, i)
    ELSE SubstringPass(part_lower, map, i)

\* the loop: the first entry, in insertion order, that matches either way
RECURSIVE PartialMatch(_, _, _)
PartialMatch(part_lower, map, i) ==
    IF i > Len(map)
    THEN None
    ELSE IF TokenOverlap(map[i].key, part_lower)
         THEN map[i].id
         ELSE IF SubstringMatch(map[i].key, part_lower)
              THEN map[i].id
              ELSE PartialMatch(part_lower, map, i + 1)

\* variant: only an empty index returns early
NothingToMatchIndexOnly(description, map) == map = <<>>

\* the guard: "if not part_description or not pss_parts_map"
NothingToMatch(description, map) == description = <<>> \/ map = <<>>

\* variant: the exact-match lookup is missing
MatchWithoutExactStep(description, map) ==
    IF NothingToMatch(description, map)
    THEN None
    ELSE PartialMatch(Strip(Lower(description)), map, 1)

_match_part_with_pss(description, map) ==
    IF NothingToMatch(description, map)
    THEN None
    ELSE LET part_lower == Strip(Lower(description))
         IN  IF HasKey(map, part_lower)
             THEN Lookup(map, part_lower)
             ELSE PartialMatch(part_lower, map, 1)

\* how many entries the loop over pss_parts_map.items() visits
RECURSIVE LoopVisits(_, _, _)
LoopVisits(part_lower, map, i) ==
    IF i > Len(map)
    THEN 0
    ELSE IF TokenOverlap(map[i].key, part_lower)
            \/ SubstringMatch(map[i].key, part_lower)
         THEN 1
         ELSE 1 + LoopVisits(part_lower, map, i + 1)

\* the same for a whole call: the early return and the dict lookup visit none
KeysScanned(description, map) ==
    IF NothingToMatch(description, map)
    THEN 0
    ELSE LET part_lower == Strip(Lower(description))
         IN  IF HasKey(map, part_lower)
             THEN 0
             ELSE LoopVisits(part_lower, map, 1)

(***************************************************************************)
(* Inputs of the part matcher.  The index is what _extract_pss_parts       *)
(* builds: keys are non-empty and lower-cased (not trimmed), distinct, and *)
(* every id is a non-empty string.  The description is drawn at the call. *)
(***************************************************************************)
Descriptions == SeqsUpTo(Chars, MaxDescLen)

\* catalog keys: one word, two words in both orders, a word inside another,
\* and keys with leading, trailing or only whitespace
CatalogKeys ==
    { <<"a">>, <<"b">>, <<"a", "b">>, <<"b", "a">>,
      <<"a", " ", "b">>, <<"b", " ", "a">>,
      <<" ", "a">>, <<"a", " ">>, <<" ">>, <<"a", " ", "a">> }

KeyLists == {ks \in SeqsUpTo(CatalogKeys, MaxKeys) :
                \A i, j \in 1..Len(ks) : i # j => ks[i] # ks[j]}

Indexes == {[i \in 1..Len(ks) |-> [key |-> ks[i], id |-> PartIds[i]]] : ks \in KeyLists}

MatchIdle ==
    /\ part_description = <<>>
    /\ pss_parts_map = <<>>
    /\ match_pc = "idle"
    /\ match_result = None
    /\ match_scanned = 0

MatchInit ==
    /\ part_description = <<>>
    /\ pss_parts_map \in Indexes
    /\ match_pc = "ready"
    /\ match_result = None
    /\ match_scanned = 0

\* one call of _match_part_with_pss on the index, with any description
MatchPart ==
    /\ match_pc = "ready"
    /\ \E description \in Descriptions :
          /\ part_description' = description
          /\ match_result' = _match_part_with_pss(description, pss_parts_map)
          /\ match_scanned' = KeysScanned(description, pss_parts_map)
    /\ match_pc' = "returned"
    /\ UNCHANGED <<pss_parts_map, batch_vars, merge_vars, est_vars, ret_vars, pipe_vars, idx_vars, an_vars>>

(***************************************************************************)
(* Batch runs: RAGService.detect_damage_batch and                          *)
(* VehicleDamageService.classify_images_only.                              *)
(***************************************************************************)
ImageRefs == {"s3://b/1.jpg", "s3://b/2.jpg"}
BucketUrls == {"s3://b/"}

\* truth value of an Optional[list] in an "if": None and [] are false
Truthy(opt) == opt # <<>> /\ opt[1] # <<>>

\* truth value of an Optional[str] in an "if": None and "" are false
TruthyStr(opt) == opt # <<>> /\ opt[1] # ""

\* what the inference endpoint may answer for one image, already converted
\* to DamageDetectionResult fields (confidence in hundredths)
DetectionOutputs ==
    { [side |-> "front", has_damage |-> TRUE, confidence |-> 90,
       damages |-> <<[part |-> "Hood", severity |-> "Minor", type |-> "Dent"]>>],
      [side |-> "front", has_damage |-> TRUE, confidence |-> 90,
       damages |-> <<[part |-> "Hood", severity |-> "Major", type |-> "Scratch"]>>],
      [side |-> "left", has_damage |-> TRUE, confidence |-> 80,
       damages |-> <<[part |-> "Door", severity |-> "Medium", type |-> "Dent"]>>] }

\* what the classification endpoint may answer for one image
ClassificationOutputs == {"front", "rear"}

ClassifiedSides == {"front", "rear", "left", "right", "roof", "unknown"}

\* variant: the sentinel does not carry the image reference
SentinelWithoutUrl(s3_url) ==
    [image_url |-> "", has_damage |-> FALSE, side |-> "unknown",
     damages |-> <<>>, confidence |-> 0]

\* the result substituted for an image whose fetch or inference failed
SentinelResult(s3_url) ==
    [image_url |-> s3_url, has_damage |-> FALSE, side |-> "unknown",
     damages |-> <<>>, confidence |-> 0]

\* variant: only the fetch is inside the try block, an inference error
\* propagates to the future
WorkerCatchesFetchOnly(s3_url, fetch_ok, infer) ==
    IF ~fetch_ok
    THEN [kind |-> "value", value |-> SentinelResult(s3_url)]
    ELSE IF infer = <<>>
    THEN [kind |-> "exception"]
    ELSE [kind |-> "value",
          value |-> [image_url |-> s3_url, has_damage |-> infer[1].has_damage,
                     side |-> infer[1].side, damages |-> infer[1].damages,
                     confidence |-> infer[1].confidence]]

\* _detect_damage_worker.  fetch_ok tells whether get_image returned; infer is
\* <<>> when the inference call raised and <<r>> when it returned r.  The
\* outcome is what the future of the task then holds.
_detect_damage_worker(s3_url, fetch_ok, infer) ==
    IF ~fetch_ok \/ infer = <<>>
    THEN [kind |-> "value", value |-> SentinelResult(s3_url)]
    ELSE [kind |-> "value",
          value |-> [image_url |-> s3_url, has_damage |-> infer[1].has_damage,
                     side |-> infer[1].side, damages |-> infer[1].damages,
                     confidence |-> infer[1].confidence]]

\* _classify_single_image, with the same inputs; infer is <<side>> or <<>>
_classify_single_image(s3_url, fetch_ok, infer) ==
    IF ~fetch_ok \/ infer = <<>>
    THEN [kind |-> "value", value |-> [image_url |-> s3_url, side |-> "unknown"]]
    ELSE [kind |-> "value", value |-> [image_url |-> s3_url, side |-> infer[1]]]

Worker(s3_url, fetch_ok, infer) ==
    IF fn = "detect_damage_batch"
    THEN _detect_damage_worker(s3_url, fetch_ok, infer)
    ELSE _classify_single_image(s3_url, fetch_ok, infer)

InferenceOutputs ==
    IF fn = "detect_damage_batch" THEN DetectionOutputs ELSE ClassificationOutputs

NoOutcome == [kind |-> "none"]

\* the tasks a worker thread is running: fetch started, result not yet set
InFlight == {i \in 1..Len(futures) : futures[i].state \in {"fetching", "inferring"}}

Queued == {i \in 1..Len(futures) : futures[i].state = "queued"}

\* variant: one thread per submitted task
PoolUnbounded == TRUE

\* ThreadPoolExecutor(max_workers=max_workers): at most max_workers threads,
\* each running one task at a time
PoolHasFreeWorker == Cardinality(InFlight) < max_workers

NoClassifiedImages == [side \in {} |-> <<>>]
EmptyClassifiedImages == [side \in ClassifiedSides |-> <<>>]

\* the response models with their defaults
FailureResponse(err) ==
    [success |-> FALSE, error |-> err, total_images |-> 0,
     images_with_damage |-> 0, detections |-> <<>>,
     merged_damage_description |-> <<>>, classified_images |-> NoClassifiedImages]

NoResponse == FailureResponse("not returned")

RECURSIVE AllDamages(_)
AllDamages(ds) ==
    IF ds = <<>> THEN <<>> ELSE Head(ds).damages \o AllDamages(Tail(ds))

DetectionResponse(urls, ds, vinfo, order) ==
    [success |-> TRUE, error |-> None, total_images |-> Len(urls),
     images_with_damage |-> Cardinality({i \in 1..Len(ds) : ds[i].has_damage}),
     detections |-> ds,
     merged_damage_description |->
         _merge_damage_descriptions(AllDamages(ds), vinfo, order),
     classified_images |-> NoClassifiedImages]

ClassifyResponse(urls, classified) ==
    [success |-> TRUE, error |-> None, total_images |-> Len(urls),
     images_with_damage |-> 0, detections |-> <<>>,
     merged_damage_description |-> <<>>, classified_images |-> classified]

\* what list_images_from_url may do: return a list, or raise a storage error
Listings ==
    {[raised |-> FALSE, urls |-> l] : l \in SeqsUpTo(ImageRefs, MaxImages)}
        \cup {[raised |-> TRUE, urls |-> <<>>]}

BatchIdle ==
    /\ fn = "idle"
    /\ bucket_url = <<>>
    /\ image_urls = <<>>
    /\ max_workers = 1
    /\ pc = "idle"
    /\ all_image_urls = <<>>
    /\ futures = <<>>
    /\ detections = <<>>
    /\ classified_images = NoClassifiedImages
    /\ listing = <<>>
    /\ response = NoResponse

BatchInit ==
    /\ fn \in {"detect_damage_batch", "classify_images_only"}
    /\ bucket_url \in {<<>>} \cup {<<u>> : u \in BucketUrls}
    /\ image_urls \in {<<>>} \cup {<<l>> : l \in SeqsUpTo(ImageRefs, MaxImages)}
    /\ max_workers \in 1..MaxWorkers
    /\ pc = "start"
    /\ all_image_urls = <<>>
    /\ futures = <<>>
    /\ detections = <<>>
    /\ classified_images = NoClassifiedImages
    /\ listing = <<>>
    /\ response = NoResponse

\* variant: the emptiness check is missing
NoImagesNeverChecked(urls) == FALSE

\* "if not all_image_urls"
NoImages(urls) == urls = <<>>

\* the dict comprehension over the list submits one task per reference; over
\* an empty list it submits nothing and as_completed ends at once
AfterResolve(urls) == IF urls = <<>> THEN "collect" ELSE "submit"

\* the head of both functions: find the image references, or return early
ResolveImages ==
    /\ pc = "start"
    /\ IF Truthy(image_urls)
       THEN /\ all_image_urls' = image_urls[1]
            /\ pc' = AfterResolve(image_urls[1])
            /\ UNCHANGED <<listing, response>>
       ELSE IF TruthyStr(bucket_url)
       THEN \E l \in Listings :
              /\ listing' = <<l>>
              /\ all_image_urls' = l.urls
              /\ IF l.raised
                 THEN /\ response' = FailureResponse("Failed to list images from S3")
                      /\ pc' = "done"
                 ELSE IF NoImages(l.urls)
                 THEN /\ response' = FailureResponse(
                            IF fn = "detect_damage_batch"
                            THEN "No images found"
                            ELSE "No images found in the specified location")
                      /\ pc' = "done"
                 ELSE /\ pc' = AfterResolve(l.urls)
                      /\ UNCHANGED response
       ELSE /\ response' = FailureResponse(
                  "Either bucket_url or image_urls must be provided")
            /\ pc' = "done"
            /\ UNCHANGED <<all_image_urls, listing>>
    /\ classified_images' =
          IF fn = "classify_images_only" /\ pc' # "done"
          THEN EmptyClassifiedImages ELSE classified_images
    /\ UNCHANGED <<fn, bucket_url, image_urls, max_workers, futures, detections,
                   merge_vars, match_vars, est_vars, ret_vars, pipe_vars, idx_vars, an_vars>>

\* executor.submit(worker, s3_url) for the next reference of the list
Submit ==
    /\ pc = "submit"
    /\ LET i == Len(futures) + 1
       IN  /\ futures' = Append(futures, [s3_url |-> all_image_urls[i],
                                          state |-> "queued",
                                          error |-> "",
                                          outcome |-> NoOutcome])
           /\ pc' = IF i = Len(all_image_urls) THEN "collect" ELSE "submit"
    /\ UNCHANGED <<fn, bucket_url, image_urls, max_workers, all_image_urls,
                   detections, classified_images, listing, response,
                   merge_vars, match_vars, est_vars, ret_vars, pipe_vars, idx_vars, an_vars>>

\* a pool thread takes the oldest queued task and starts its fetch
StartTask(i) ==
    /\ i \in Queued
    /\ \A j \in Queued : i <= j
    /\ PoolHasFreeWorker
    /\ futures' = [futures EXCEPT ![i].state = "fetching"]
    /\ UNCHANGED <<fn, bucket_url, image_urls, max_workers, pc, all_image_urls,
                   detections, classified_images, listing, response,
                   merge_vars, match_vars, est_vars, ret_vars, pipe_vars, idx_vars, an_vars>>

\* s3_service.get_image returns the bytes or raises
FetchImage(i) ==
    /\ i \in 1..Len(futures)
    /\ futures[i].state = "fetching"
    /\ \E fetch_ok \in BOOLEAN :
          futures' =
             IF fetch_ok
             THEN [futures EXCEPT ![i].state = "inferring"]
             ELSE [futures EXCEPT
                     ![i].state = "done",
                     ![i].error = "fetch",
                     ![i].outcome = Worker(futures[i].s3_url, FALSE, <<>>)]
    /\ UNCHANGED <<fn, bucket_url, image_urls, max_workers, pc, all_image_urls,
                   detections, classified_images, listing, response,
                   merge_vars, match_vars, est_vars, ret_vars, pipe_vars, idx_vars, an_vars>>

\* variant: the worker itself appends its result to the result list
InferAppending(i) ==
    /\ i \in 1..Len(futures)
    /\ futures[i].state = "inferring"
    /\ \E infer \in {<<>>} \cup {<<r>> : r \in InferenceOutputs} :
          /\ futures' = [futures EXCEPT
                           ![i].state = "done",
                           ![i].error = IF infer = <<>> THEN "inference" ELSE "",
                           ![i].outcome = Worker(futures[i].s3_url, TRUE, infer)]
          /\ detections' =
                IF fn = "detect_damage_batch"
                THEN Append(detections, Worker(futures[i].s3_url, TRUE, infer).value)
                ELSE detections
    /\ UNCHANGED <<fn, bucket_url, image_urls, max_workers, pc, all_image_urls,
                   classified_images, listing, response,
                   merge_vars, match_vars, est_vars, ret_vars, pipe_vars, idx_vars, an_vars>>

\* the inference call returns a typed result or raises; the task ends
Infer(i) ==
    /\ i \in 1..Len(futures)
    /\ futures[i].state = "inferring"
    /\ \E infer \in {<<>>} \cup {<<r>> : r \in InferenceOutputs} :
          futures' = [futures EXCEPT
                        ![i].state = "done",
                        ![i].error = IF infer = <<>> THEN "inference" ELSE "",
                        ![i].outcome = Worker(futures[i].s3_url, TRUE, infer)]
    /\ UNCHANGED <<fn, bucket_url, image_urls, max_workers, pc, all_image_urls,
                   detections, classified_images, listing, response,
                   merge_vars, match_vars, est_vars, ret_vars, pipe_vars, idx_vars, an_vars>>

\* one iteration of "for future in as_completed(futures)"
Collect(i) ==
    /\ pc = "collect"
    /\ i \in 1..Len(futures)
    /\ futures[i].state = "done"
    /\ futures' = [futures EXCEPT ![i].state = "collected"]
    /\ LET out == futures[i].outcome
       IN  IF fn = "detect_damage_batch"
           THEN /\ IF out.kind = "value"
                   THEN /\ detections' = Append(detections, out.value)
                        /\ pc' = pc
                   ELSE \* future.result() raises out of the with block
                        /\ detections' = detections
                        /\ pc' = "raising"
                /\ UNCHANGED classified_images
           ELSE /\ classified_images' =
                     IF out.kind = "value"
                     THEN [classified_images EXCEPT ![out.value.side] =
                              Append(@, out.value.image_url)]
                     ELSE [classified_images EXCEPT !["unknown"] =
                              Append(@, futures[i].s3_url)]
                /\ UNCHANGED <<detections, pc>>
    /\ UNCHANGED <<fn, bucket_url, image_urls, max_workers, all_image_urls,
                   listing, response, merge_vars, match_vars, est_vars, ret_vars, pipe_vars, idx_vars, an_vars>>

\* variant: the function returns as soon as the loop could be left, without
\* waiting for the pool
ReturnWithoutDraining ==
    /\ pc \in {"collect", "raising"}
    /\ response' =
          IF pc = "raising"
          THEN FailureResponse("worker raised")
          ELSE IF fn = "detect_damage_batch"
          THEN DetectionResponse(all_image_urls, detections, vehicle_info, hash_order)
          ELSE ClassifyResponse(all_image_urls, classified_images)
    /\ pc' = "done"
    /\ UNCHANGED <<fn, bucket_url, image_urls, max_workers, all_image_urls,
                   futures, detections, classified_images, listing,
                   merge_vars, match_vars, est_vars, ret_vars, pipe_vars, idx_vars, an_vars>>

\* leaving the with block (shutdown(wait=True)) and returning the response
Return ==
    /\ pc \in {"collect", "raising"}
    /\ Queued = {} /\ InFlight = {}
    /\ pc = "collect" => \A i \in 1..Len(futures) : futures[i].state = "collected"
    /\ response' =
          IF pc = "raising"
          THEN FailureResponse("worker raised")
          ELSE IF fn = "detect_damage_batch"
          THEN DetectionResponse(all_image_urls, detections, vehicle_info, hash_order)
          ELSE ClassifyResponse(all_image_urls, classified_images)
    /\ pc' = "done"
    /\ UNCHANGED <<fn, bucket_url, image_urls, max_workers, all_image_urls,
                   futures, detections, classified_images, listing,
                   merge_vars, match_vars, est_vars, ret_vars, pipe_vars, idx_vars, an_vars>>

BatchNext ==
    \/ ResolveImages
    \/ Submit
    \/ \E i \in 1..MaxImages + 1 : StartTask(i)
    \/ \E i \in 1..MaxImages + 1 : FetchImage(i)
    \/ \E i \in 1..MaxImages + 1 : Infer(i)
    \/ \E i \in 1..MaxImages + 1 : Collect(i)
    \/ Return

(***************************************************************************)
(* Estimate synthesizer: RAGService.generate_estimate.                     *)
(* The inference output is a dict category -> list of operations, each a   *)
(* free dict; a dict keeps insertion order, so it is a sequence of entries *)
(* [category, operations].  A key of an operation may be missing: an       *)
(* optional field is <<>> when missing and <<v>> when present.             *)
(* Descriptions and category names go to the part matcher, so they are     *)
(* sequences of characters; operation names and part ids are only compared *)
(* and are whole strings.                                                  *)
(***************************************************************************)
Absent == [kind |-> "absent", value |-> 0]      \* the key is missing
Null == [kind |-> "null", value |-> 0]          \* the key holds None
Hours(n) == [kind |-> "float", value |-> n]     \* the key holds a number
NotANumber == [kind |-> "text", value |-> 0]    \* the key holds text like "n/a"

\* raw operations of an inference output
RawOperations ==
    { \* everything given
      [Description |-> << <<"a", " ", "b">> >>, Operation |-> <<"Repair">>,
       LaborHours |-> Hours(2), PartId |-> <<"p9">>],
      \* a repair without hours and without part id
      [Description |-> << <<"b">> >>, Operation |-> <<"Repair">>,
       LaborHours |-> Absent, PartId |-> <<>>],
      \* hours on an operation that is not a repair
      [Description |-> << <<"a", " ", "b">> >>, Operation |-> <<"Remove / Replace">>,
       LaborHours |-> Hours(2), PartId |-> <<"">>],
      \* no description and no operation name
      [Description |-> <<>>, Operation |-> <<>>,
       LaborHours |-> Hours(0), PartId |-> <<>>],
      \* hours that are no number, on a repair and on another operation
      [Description |-> << <<"b">> >>, Operation |-> <<"Repair">>,
       LaborHours |-> NotANumber, PartId |-> <<"p9">>],
      [Description |-> << <<"b">> >>, Operation |-> <<"Overhaul">>,
       LaborHours |-> NotANumber, PartId |-> <<"p9">>] }

CategoryNames == <<  <<"a">>, <<"b">>  >>

\* result.estimate: up to MaxCategories categories with distinct names, each
\* with up to MaxOperations operations
RawEstimates ==
    UNION { { [i \in 1..n |-> [category |-> cs[i], operations |-> os[i]]] :
                cs \in {c \in [1..n -> Range(CategoryNames)] :
                           \A i, j \in 1..n : i # j => c[i] # c[j]},
                os \in [1..n -> SeqsUpTo(RawOperations, MaxOperations)] } :
            n \in 0..MaxCategories }

\* what estimate_model.invoke does: it raises, or returns an output
EstimateInferences == {<<>>} \cup {<<e>> : e \in RawEstimates}

\* the index built from pss_data: none when pss_data is None
EstimateIndexes ==
    {m \in Indexes : \A i \in 1..Len(m) : m[i].key \in {<<"a">>, <<"b">>}}

CustomPrompts == {"none", "valid", "invalid"}

Unknown == <<"U", "n", "k", "n", "o", "w", "n">>

\* variant: any operation keeps its hours
IsRepairAlways(op) == TRUE

\* op.get('Operation') == 'Repair'
IsRepair(op) == op.Operation = <<"Repair">>

\* variant: a repair without hours gets 0.0
LaborHoursOrZero(op) ==
    IF IsRepair(op)
    THEN IF op.LaborHours.kind \in {"absent", "null"} THEN Hours(0) ELSE op.LaborHours
    ELSE Null

\* labor_hours = op.get('LaborHours') if op.get('Operation') == 'Repair' else None
LaborHoursOf(op) ==
    IF IsRepair(op)
    THEN IF op.LaborHours.kind = "absent" THEN Null ELSE op.LaborHours
    ELSE Null

\* str(op.get('PartId', '') or '')
RawPartId(op) == IF op.PartId = <<>> THEN "" ELSE op.PartId[1]

\* op.get('Description', '')
PartDescription(op) == IF op.Description = <<>> THEN <<>> ELSE op.Description[1]

\* variant: the category name is tried before the description
BackFillCategoryFirst(op, category, map) ==
    IF RawPartId(op) # ""
    THEN RawPartId(op)
    ELSE LET by_category == _match_part_with_pss(category, map)
         IN  IF by_category # None
             THEN by_category
             ELSE _match_part_with_pss(PartDescription(op), map)

\* the part id after the two attempts; None when nothing was found
BackFillPartId(op, category, map) ==
    IF RawPartId(op) # ""
    THEN RawPartId(op)
    ELSE LET by_description == _match_part_with_pss(PartDescription(op), map)
         IN  IF by_description # None
             THEN by_description
             ELSE _match_part_with_pss(category, map)

\* EstimateOperation(...): LaborHours is Optional[float], so text that is
\* no number fails validation
ValidOperation(op) == LaborHoursOf(op).kind # "text"

\* the EstimateOperation built from one raw operation
EstimateOperation(op, category, map) ==
    [Description |-> IF op.Description = <<>> THEN Unknown ELSE op.Description[1],
     Operation |-> IF op.Operation = <<>> THEN "Unknown" ELSE op.Operation[1],
     LaborHours |-> IF LaborHoursOf(op).kind = "float"
                    THEN <<LaborHoursOf(op).value>> ELSE <<>>,
     PartId |-> LET part_id == BackFillPartId(op, category, map)
                IN  IF part_id = None THEN "" ELSE part_id]

\* estimate_dict after the two loops
EstimateDict(raw, map) ==
    [i \in 1..Len(raw) |->
        [category |-> raw[i].category,
         operations |-> [j \in 1..Len(raw[i].operations) |->
                            EstimateOperation(raw[i].operations[j],
                                              raw[i].category, map)]]]

EmptyEstimate == <<>>

\* variant: a failed inference call is not caught
GenerateEstimateUncaught(custom_prompt, inference, map) ==
    IF custom_prompt = "invalid"
    THEN [kind |-> "exception", value |-> EmptyEstimate, invocations |-> 0]
    ELSE IF inference = <<>>
         THEN [kind |-> "exception", value |-> EmptyEstimate, invocations |-> 1]
         ELSE IF \E i \in 1..Len(inference[1]) :
                    \E j \in 1..Len(inference[1][i].operations) :
                        ~ValidOperation(inference[1][i].operations[j])
              THEN [kind |-> "exception", value |-> EmptyEstimate,
                    invocations |-> 1]
              ELSE [kind |-> "value", value |-> EstimateDict(inference[1], map),
                    invocations |-> 1]

\* the whole call: how it ends, what it returns, and how many times it
\* called the model.  custom_prompt.format raises on a template with an
\* unknown placeholder, before the model is called.
generate_estimate(custom_prompt, inference, map) ==
    IF custom_prompt = "invalid"
    THEN [kind |-> "exception", value |-> EmptyEstimate, invocations |-> 0]
    ELSE IF inference = <<>>
         THEN [kind |-> "value", value |-> EmptyEstimate, invocations |-> 1]
         ELSE IF \E i \in 1..Len(inference[1]) :
                    \E j \in 1..Len(inference[1][i].operations) :
                        ~ValidOperation(inference[1][i].operations[j])
              THEN [kind |-> "exception", value |-> EmptyEstimate,
                    invocations |-> 1]
              ELSE [kind |-> "value", value |-> EstimateDict(inference[1], map),
                    invocations |-> 1]

EstimateIdle ==
    /\ est_pc = "idle"
    /\ est_prompt = "none"
    /\ est_pss_map = <<>>
    /\ est_inference = <<>>
    /\ est_invocations = 0
    /\ est_result = EmptyEstimate

EstimateInit ==
    /\ est_pc = "ready"
    /\ est_prompt \in CustomPrompts
    /\ est_pss_map \in EstimateIndexes
    /\ est_inference = <<>>
    /\ est_invocations = 0
    /\ est_result = EmptyEstimate

\* one call of generate_estimate, with any behaviour of the model
GenerateEstimate ==
    /\ est_pc = "ready"
    /\ \E inference \in EstimateInferences :
          LET out == generate_estimate(est_prompt, inference, est_pss_map)
          IN  /\ est_inference' = IF out.invocations = 0 THEN <<>> ELSE inference
              /\ est_invocations' = out.invocations
              /\ est_result' = out.value
              /\ est_pc' = IF out.kind = "value" THEN "returned" ELSE "raised"
    /\ UNCHANGED <<est_prompt, est_pss_map, batch_vars, merge_vars, match_vars,
                   ret_vars, pipe_vars, idx_vars, an_vars>>

(***************************************************************************)
(* Retrieval client: RAGService.retrieve_similar_chunks over               *)
(* QdrantService.is_connected and QdrantService.search.  The vector index  *)
(* and the embedding service are outside the program: whether the index    *)
(* answers, and what a search gives, are inputs of the call.               *)
(***************************************************************************)
\* query texts: the empty string and two texts (sequences of fragments)
QueryTexts == {<<>>, <<"Rear bumper dent">>, <<"Hood scratch">>}

\* one hit of QdrantService.search: {"score": hit.score, "payload": hit.payload}
SearchHits ==
    { [score |-> 9, payload |-> "complete"],    \* every payload key is there
      [score |-> 7, payload |-> "empty"],       \* payload is {}
      [score |-> 6, payload |-> "None"] }       \* payload is None

\* what QdrantService.search does for a limit: it raises (no collection, no
\* embedding, no answer), or returns at most limit hits
SearchOutcomes(limit) ==
    {<<>>} \cup {<<hits>> : hits \in SeqsUpTo(SearchHits, IF limit < MaxHits THEN limit ELSE MaxHits)}

\* RetrievedChunk(...) built from one hit, with the defaults of payload.get
RetrievedChunk(hit) ==
    [score |-> hit.score,
     content |-> IF hit.payload = "complete" THEN <<"Rear bumper dented">> ELSE <<>>,
     side |-> IF hit.payload = "complete" THEN "rear" ELSE "unknown"]

\* payload = result.get('payload', {}); payload.get(...) fails on None
ConvertibleHit(hit) == hit.payload # "None"

\* variant: only the search call is inside the try
RetrieveConversionUncaught(connected, search) ==
    IF ~connected
    THEN [kind |-> "value", value |-> <<>>, searches |-> 0]
    ELSE IF search = <<>>
         THEN [kind |-> "value", value |-> <<>>, searches |-> 1]
         ELSE IF \E i \in 1..Len(search[1]) : ~ConvertibleHit(search[1][i])
              THEN [kind |-> "exception", value |-> <<>>, searches |-> 1]
              ELSE [kind |-> "value", searches |-> 1,
                    value |-> [i \in 1..Len(search[1]) |-> RetrievedChunk(search[1][i])]]

\* the whole call: how it ends, the chunks, and the number of search calls.
\* The query text is passed to search unread.
retrieve_similar_chunks(connected, search) ==
    IF ~connected
    THEN [kind |-> "value", value |-> <<>>, searches |-> 0]
    ELSE IF search = <<>>
         THEN [kind |-> "value", value |-> <<>>, searches |-> 1]
         ELSE IF \E i \in 1..Len(search[1]) : ~ConvertibleHit(search[1][i])
              THEN [kind |-> "value", value |-> <<>>, searches |-> 1]
              ELSE [kind |-> "value", searches |-> 1,
                    value |-> [i \in 1..Len(search[1]) |-> RetrievedChunk(search[1][i])]]

RetrieveIdle ==
    /\ ret_pc = "idle"
    /\ ret_query = <<>>
    /\ ret_top_k = 1
    /\ ret_connected = FALSE
    /\ ret_search = <<>>
    /\ ret_searches = 0
    /\ ret_chunks = <<>>

RetrieveInit ==
    /\ ret_pc = "ready"
    /\ ret_query \in QueryTexts
    /\ ret_top_k \in 1..MaxTopK
    /\ ret_connected = FALSE
    /\ ret_search = <<>>
    /\ ret_searches = 0
    /\ ret_chunks = <<>>

\* one call of retrieve_similar_chunks, with any behaviour of the index
RetrieveSimilarChunks ==
    /\ ret_pc = "ready"
    /\ \E connected \in BOOLEAN, search \in SearchOutcomes(ret_top_k) :
          LET out == retrieve_similar_chunks(connected, search)
          IN  /\ ret_connected' = connected
              /\ ret_search' = IF out.searches = 0 THEN <<>> ELSE search
              /\ ret_searches' = out.searches
              /\ ret_chunks' = out.value
              /\ ret_pc' = IF out.kind = "value" THEN "returned" ELSE "raised"
    /\ UNCHANGED <<ret_query, ret_top_k, batch_vars, merge_vars, match_vars,
                   est_vars, pipe_vars, idx_vars, an_vars>>

(***************************************************************************)
(* Estimate pipeline: RAGService.run_rag_pipeline.                         *)
(* The request is a RAGEstimateRequest.  The method reads request.pss_data,*)
(* which is no field of RAGEstimateRequest (the model declares pss_url):   *)
(* on an instance of the class itself the read raises AttributeError; only *)
(* a request object that carries the attribute (a subclass with a pss_data *)
(* field) gets past it.  pss_data is "missing", "None" or "dict".          *)
(* The stages are Merging (the search query is built), Retrieving (the     *)
(* call of retrieve_similar_chunks), Synthesizing (the call of             *)
(* generate_estimate) and Done (a response is returned).                   *)
(***************************************************************************)
TopKDefault == 5

\* findings of a request: None, an empty list, or one finding
RequestDamages ==
    {<<>>, << <<>> >>,
     << <<[part |-> "Hood", severity |-> "Minor", type |-> "Dent"]>> >>}

\* merged_damage_description: None, the empty string, or a text
RequestNarratives == {<<>>, << <<>> >>, << <<"Rear bumper dent">> >>}

RAGEstimateRequest ==
    [pss_data : {"missing", "None", "dict"},
     damage_descriptions : RequestDamages,
     merged_damage_description : RequestNarratives,
     vehicle_info : {<<>>},
     custom_estimate_prompt : CustomPrompts]

\* the index _extract_pss_parts builds from request.pss_data
PipelineIndex(req) ==
    IF req.pss_data = "dict"
    THEN <<[key |-> <<"a">>, id |-> PartIds[1]]>>
    ELSE <<>>

\* what estimate_model.invoke does in a pipeline run: it raises, or returns
\* no category, a repair, or an operation whose hours are no number
PipelineInferences ==
    { <<>>,
      << <<>> >>,
      << <<[category |-> <<"a">>,
            operations |-> <<[Description |-> << <<"b">> >>, Operation |-> <<"Repair">>,
                              LaborHours |-> Hours(2), PartId |-> <<>>]>>]>> >>,
      << <<[category |-> <<"a">>,
            operations |-> <<[Description |-> << <<"b">> >>, Operation |-> <<"Repair">>,
                              LaborHours |-> NotANumber, PartId |-> <<>>]>>]>> >> }

\* request.damage_descriptions or []
AllRequestDamages(req) ==
    IF req.damage_descriptions = <<>> THEN <<>> ELSE req.damage_descriptions[1]

\* variant: only None counts as no text
TruthyTextUnlessNone(opt) == opt # <<>>

\* truth value of an Optional[str]
TruthyText(opt) == opt # <<>> /\ opt[1] # <<>>

\* search_query after "Build search query"
SearchQuery(req, order) ==
    IF ~TruthyText(req.merged_damage_description) /\ AllRequestDamages(req) # <<>>
    THEN <<_merge_damage_descriptions(AllRequestDamages(req), req.vehicle_info, order)>>
    ELSE req.merged_damage_description

RAGFailure(message) ==
    [success |-> FALSE, error |-> <<message>>, generated_estimate |-> <<>>,
     pss_data_used |-> FALSE]

RAGSuccess(estimate, req) ==
    [success |-> TRUE, error |-> <<>>, generated_estimate |-> <<estimate>>,
     pss_data_used |-> req.pss_data # "None"]

NoRAGResponse ==
    [success |-> FALSE, error |-> <<"not returned">>, generated_estimate |-> <<>>,
     pss_data_used |-> FALSE]

NoCalls == [retrieve |-> 0, inference |-> 0, inference_failed |-> 0]

PipelineIdle ==
    /\ request = [pss_data |-> "missing", damage_descriptions |-> <<>>,
                  merged_damage_description |-> <<>>, vehicle_info |-> <<>>,
                  custom_estimate_prompt |-> "none"]
    /\ pipe_pc = "idle"
    /\ stages = <<>>
    /\ search_query = <<>>
    /\ retrieved_chunks = <<>>
    /\ pipe_calls = NoCalls
    /\ rag_response = NoRAGResponse

PipelineInit ==
    /\ request \in RAGEstimateRequest
    /\ pipe_pc = "start"
    /\ stages = <<>>
    /\ search_query = <<>>
    /\ retrieved_chunks = <<>>
    /\ pipe_calls = NoCalls
    /\ rag_response = NoRAGResponse

\* pss_data = request.pss_data, inside the try
ReadRequest ==
    /\ pipe_pc = "start"
    /\ IF request.pss_data = "missing"
       THEN /\ rag_response' = RAGFailure("AttributeError")
            /\ pipe_pc' = "done"
            /\ stages' = Append(stages, "Done")
       ELSE /\ pipe_pc' = "merging"
            /\ stages' = Append(stages, "Merging")
            /\ UNCHANGED rag_response
    /\ UNCHANGED <<request, search_query, retrieved_chunks, pipe_calls,
                   batch_vars, merge_vars, match_vars, est_vars, ret_vars, idx_vars, an_vars>>

\* the search query is built; without one the run ends in a failure
BuildSearchQuery ==
    /\ pipe_pc = "merging"
    /\ search_query' = SearchQuery(request, hash_order)
    /\ IF ~TruthyText(search_query')
       THEN /\ rag_response' = RAGFailure("No damage description provided for retrieval")
            /\ pipe_pc' = "done"
            /\ stages' = Append(stages, "Done")
       ELSE /\ pipe_pc' = "retrieving"
            /\ stages' = Append(stages, "Retrieving")
            /\ UNCHANGED rag_response
    /\ UNCHANGED <<request, retrieved_chunks, pipe_calls,
                   batch_vars, merge_vars, match_vars, est_vars, ret_vars, idx_vars, an_vars>>

\* retrieved_chunks = self.retrieve_similar_chunks(damage_description=search_query)
RetrieveChunks ==
    /\ pipe_pc = "retrieving"
    /\ \E connected \in BOOLEAN, search \in SearchOutcomes(TopKDefault) :
          LET out == retrieve_similar_chunks(connected, search)
          IN  /\ retrieved_chunks' = out.value
              /\ pipe_calls' = [pipe_calls EXCEPT !.retrieve = @ + 1]
              /\ IF out.kind = "value"
                 THEN /\ pipe_pc' = "synthesizing"
                      /\ stages' = Append(stages, "Synthesizing")
                      /\ UNCHANGED rag_response
                 ELSE /\ rag_response' = RAGFailure("retrieval")
                      /\ pipe_pc' = "done"
                      /\ stages' = Append(stages, "Done")
    /\ UNCHANGED <<request, search_query,
                   batch_vars, merge_vars, match_vars, est_vars, ret_vars, idx_vars, an_vars>>

\* variant: an empty estimate is reported as a failure
SynthesisResponseEmptyFails(out, req) ==
    IF out.kind = "exception"
    THEN RAGFailure("generate_estimate")
    ELSE IF out.value = EmptyEstimate
         THEN RAGFailure("empty estimate")
         ELSE RAGSuccess(out.value, req)

\* the response after generate_estimate: success with whatever estimate it
\* returned, failure when it raised
SynthesisResponse(out, req) ==
    IF out.kind = "exception"
    THEN RAGFailure("generate_estimate")
    ELSE RAGSuccess(out.value, req)

\* generated_estimate = self.generate_estimate(...), and the return
Synthesize ==
    /\ pipe_pc = "synthesizing"
    /\ \E inference \in PipelineInferences :
          LET out == generate_estimate(request.custom_estimate_prompt, inference,
                                       PipelineIndex(request))
          IN  /\ pipe_calls' =
                    [pipe_calls EXCEPT
                        !.inference = @ + out.invocations,
                        !.inference_failed =
                            IF out.invocations = 1 /\ inference = <<>> THEN @ + 1 ELSE @]
              /\ rag_response' = SynthesisResponse(out, request)
    /\ pipe_pc' = "done"
    /\ stages' = Append(stages, "Done")
    /\ UNCHANGED <<request, search_query, retrieved_chunks,
                   batch_vars, merge_vars, match_vars, est_vars, ret_vars, idx_vars, an_vars>>

PipelineNext ==
    \/ ReadRequest
    \/ BuildSearchQuery
    \/ RetrieveChunks
    \/ Synthesize

(***************************************************************************)
(* Catalog indexer: RAGService._extract_pss_parts.                         *)
(* pss_data is None or a document.  The four nested loops only flatten the *)
(* document, so a document is a list of categories and a category is a     *)
(* list of part details (its SubCategories and Parts levels are folded     *)
(* into it).  A category or a part detail that is no mapping is            *)
(* "malformed": calling .get on it raises.  A part detail has a            *)
(* FullDescription, an Id and the Description of its Part; a missing key   *)
(* reads as the empty string.                                              *)
(***************************************************************************)
MalformedDetail ==
    [kind |-> "malformed", FullDescription |-> <<>>, Id |-> "", Description |-> <<>>]

\* part details of a catalog
PartDetails ==
    { [kind |-> "detail", FullDescription |-> <<"A">>, Id |-> "p1",
       Description |-> <<"b">>],
      \* a full description with a leading blank
      [kind |-> "detail", FullDescription |-> <<" ", "a">>, Id |-> "p2",
       Description |-> <<"a">>],
      \* a full description that another part has as its description
      [kind |-> "detail", FullDescription |-> <<"b">>, Id |-> "p3",
       Description |-> <<"a">>],
      \* no full description
      [kind |-> "detail", FullDescription |-> <<>>, Id |-> "p4",
       Description |-> <<"B">>],
      \* no id
      [kind |-> "detail", FullDescription |-> <<"a">>, Id |-> "",
       Description |-> <<"b">>],
      MalformedDetail }

\* a category: malformed, or its part details in traversal order
CatalogCategories(n) ==
    {[kind |-> "malformed", details |-> <<>>]}
        \cup {[kind |-> "category", details |-> ds] : ds \in SeqsUpTo(PartDetails, n)}

\* the number of part details of a list of categories
RECURSIVE DetailCount(_)
DetailCount(categories) ==
    IF categories = <<>>
    THEN 0
    ELSE Len(Head(categories).details) + DetailCount(Tail(categories))

\* pss_data: None, or a document with at most m categories and n part
\* details
CatalogDocuments(m, n) ==
    {<<>>} \cup {<<cs>> : cs \in {c \in SeqsUpTo(CatalogCategories(n), m) :
                                     DetailCount(c) <= n}}

\* the part details in traversal order; a malformed category stands in the
\* list as one malformed entry
RECURSIVE Traversal(_)
Traversal(categories) ==
    IF categories = <<>>
    THEN <<>>
    ELSE (IF Head(categories).kind = "malformed"
          THEN <<MalformedDetail>>
          ELSE Head(categories).details) \o Traversal(Tail(categories))

\* parts_map[key] = entry: an existing key keeps its place, a new one is
\* appended
SetEntry(map, key, entry) ==
    IF HasKey(map, key)
    THEN [i \in 1..Len(map) |-> IF map[i].key = key THEN entry ELSE map[i]]
    ELSE Append(map, entry)

\* the entry stored for a part detail under a key
CatalogEntry(key, detail) ==
    [key |-> key, id |-> detail.Id, full_description |-> detail.FullDescription]

\* full_desc.lower()
PrimaryKey(detail) == Lower(detail.FullDescription)

\* part_desc.lower()
SecondaryKey(detail) == Lower(detail.Description)

\* if full_desc and part_id: parts_map[full_desc.lower()] = {...}
WithPrimary(map, detail) ==
    IF detail.FullDescription # <<>> /\ detail.Id # ""
    THEN SetEntry(map, PrimaryKey(detail), CatalogEntry(PrimaryKey(detail), detail))
    ELSE map

\* variant: the part description is stored also when its key is taken
WithSecondaryReplacing(map, detail) ==
    IF detail.Description # <<>> /\ detail.Id # ""
    THEN SetEntry(map, SecondaryKey(detail), CatalogEntry(SecondaryKey(detail), detail))
    ELSE map

\* if part_desc and part_id and part_desc.lower() not in parts_map: ...
WithSecondary(map, detail) ==
    IF detail.Description # <<>> /\ detail.Id # ""
          /\ ~HasKey(map, SecondaryKey(detail))
    THEN Append(map, CatalogEntry(SecondaryKey(detail), detail))
    ELSE map

\* the loops inside the try: the first malformed entry raises, the except
\* clause ends the traversal, and parts_map is what was stored until then
RECURSIVE IndexDetails(_, _, _)
IndexDetails(details, i, map) ==
    IF i > Len(details)
    THEN map
    ELSE IF details[i].kind = "malformed"
         THEN map
         ELSE IndexDetails(details, i + 1,
                           WithSecondary(WithPrimary(map, details[i]), details[i]))

_extract_pss_parts(data) ==
    IF data = <<>> \/ data[1] = <<>>
    THEN <<>>
    ELSE IndexDetails(Traversal(data[1]), 1, <<>>)

IndexIdle ==
    /\ idx_pss_data = <<>>
    /\ idx_pc = "idle"
    /\ idx_parts_map = <<>>
    /\ idx_query = <<>>
    /\ idx_found = None

IndexInit ==
    /\ idx_pss_data \in CatalogDocuments(MaxCatalogCategories, MaxDetails)
    /\ idx_pc = "ready"
    /\ idx_parts_map = <<>>
    /\ idx_query = <<>>
    /\ idx_found = None

\* one call of _extract_pss_parts on the document
ExtractPssParts ==
    /\ idx_pc = "ready"
    /\ idx_parts_map' = _extract_pss_parts(idx_pss_data)
    /\ idx_pc' = "indexed"
    /\ UNCHANGED <<idx_pss_data, idx_query, idx_found, batch_vars, merge_vars,
                   match_vars, est_vars, ret_vars, pipe_vars, an_vars>>

\* descriptions looked up in the built index
IndexQueries == {<<"a">>, <<"A">>, <<"b", " ">>, <<" ">>}

\* one call of _match_part_with_pss on the built index, as generate_estimate
\* makes it
MatchInIndex ==
    /\ idx_pc = "indexed"
    /\ \E description \in IndexQueries :
          /\ idx_query' = description
          /\ idx_found' = _match_part_with_pss(description, idx_parts_map)
    /\ idx_pc' = "matched"
    /\ UNCHANGED <<idx_pss_data, idx_parts_map, batch_vars, merge_vars,
                   match_vars, est_vars, ret_vars, pipe_vars, an_vars>>

IndexNext ==
    \/ ExtractPssParts
    \/ MatchInIndex

(***************************************************************************)
(* Per-image analyzer: RAGService.detect_damage_single_image.              *)
(* The vehicle context is None or a VehicleInfo; its fields are required   *)
(* but may be empty ("" or 0).  The raw inference output carries a list of *)
(* damage dicts; a key of a damage dict may be missing, and a dict whose   *)
(* values DamageDescription rejects is dropped.                            *)
(***************************************************************************)
\* vehicle_info: None, or year, make, model and body type
AnalyzerVehicles ==
    {<<>>} \cup {<<v>> : v \in [year : {0, 2020}, make : {"", "Subaru"},
                                model : {"Outback"}, body_type : {"", "SUV"}]}

\* human_description: None, the empty string, or a text
HumanDescriptions == {<<>>, <<"">>, <<"dent on the hood">>}

\* one damage dict of the raw output; a missing key is <<>>
RawDamages ==
    { [part |-> <<"Hood">>, severity |-> <<"Major">>, type |-> <<"Dent">>, valid |-> TRUE],
      [part |-> <<"Door">>, severity |-> <<>>, type |-> <<"Scratch">>, valid |-> TRUE],
      [part |-> <<>>, severity |-> <<"Minor">>, type |-> <<>>, valid |-> TRUE],
      [part |-> <<"Hood">>, severity |-> <<"Minor">>, type |-> <<"Dent">>, valid |-> FALSE] }

\* what damage_detection_model.invoke returns
AnalyzerOutputs ==
    { [side |-> "front", has_damage |-> TRUE, confidence |-> 90, damages |-> ds] :
          ds \in SeqsUpTo(RawDamages, MaxRawDamages) }

\* "if vehicle_info:" and get_damage_detection_with_context_prompt: the
\* prompt variant, and whether the human description is in the prompt
SelectPrompt(vinfo, human) ==
    IF vinfo # <<>>
    THEN IF vinfo[1].year # 0 /\ vinfo[1].make # "" /\ vinfo[1].model # ""
               /\ vinfo[1].body_type # ""
         THEN [variant |-> "context", human |-> human # <<>> /\ human[1] # ""]
         ELSE [variant |-> "bare", human |-> FALSE]
    ELSE [variant |-> "bare", human |-> FALSE]

\* damage_dict.get(key, 'Unknown')
OrUnknown(opt) == IF opt = <<>> THEN "Unknown" ELSE opt[1]

\* the DamageDescription objects built from the raw damage dicts; a dict
\* that fails validation is left out
RECURSIVE ConvertDamages(_)
ConvertDamages(raw) ==
    IF raw = <<>>
    THEN <<>>
    ELSE (IF Head(raw).valid
          THEN <<[part |-> OrUnknown(Head(raw).part),
                  severity |-> OrUnknown(Head(raw).severity),
                  type |-> OrUnknown(Head(raw).type)]>>
          ELSE <<>>) \o ConvertDamages(Tail(raw))

\* the whole call; infer is <<>> when the inference call raised
detect_damage_single_image(s3_url, vinfo, human, infer) ==
    IF infer = <<>>
    THEN [kind |-> "exception", prompt |-> SelectPrompt(vinfo, human),
          value |-> SentinelResult(s3_url)]
    ELSE [kind |-> "value", prompt |-> SelectPrompt(vinfo, human),
          value |-> [image_url |-> s3_url, has_damage |-> infer[1].has_damage,
                     side |-> infer[1].side,
                     damages |-> ConvertDamages(infer[1].damages),
                     confidence |-> infer[1].confidence]]

NoPrompt == [variant |-> "none", human |-> FALSE]

AnalyzeIdle ==
    /\ an_pc = "idle"
    /\ an_vehicle = <<>>
    /\ an_human = <<>>
    /\ an_prompt = NoPrompt
    /\ an_infer = <<>>
    /\ an_result = SentinelResult("")

AnalyzeInit ==
    /\ an_pc = "ready"
    /\ an_vehicle \in AnalyzerVehicles
    /\ an_human \in HumanDescriptions
    /\ an_prompt = NoPrompt
    /\ an_infer = <<>>
    /\ an_result = SentinelResult("")

\* one call of detect_damage_single_image, with any answer of the model
DetectDamageSingleImage ==
    /\ an_pc = "ready"
    /\ \E infer \in {<<>>} \cup {<<r>> : r \in AnalyzerOutputs} :
          LET out == detect_damage_single_image("s3://b/1.jpg", an_vehicle,
                                                an_human, infer)
          IN  /\ an_infer' = infer
              /\ an_prompt' = out.prompt
              /\ an_result' = out.value
              /\ an_pc' = IF out.kind = "value" THEN "returned" ELSE "raised"
    /\ UNCHANGED <<an_vehicle, an_human, batch_vars, merge_vars, match_vars,
                   est_vars, ret_vars, pipe_vars, idx_vars>>

AnalyzeNext == DetectDamageSingleImage

(***************************************************************************)
(* Specifications.  Each one runs one component and leaves the variables   *)
(* of the others at rest.                                                  *)
(***************************************************************************)
VehicleInfos == {<<>>} \cup {<<v>> : v \in VehicleInfo}

InitBatch ==
    /\ BatchInit
    /\ vehicle_info \in VehicleInfos
    /\ hash_order \in HashOrders
    /\ MergeIdle
    /\ MatchIdle
    /\ EstimateIdle
    /\ RetrieveIdle
    /\ PipelineIdle
    /\ IndexIdle
    /\ AnalyzeIdle

SpecBatch == InitBatch /\ [][BatchNext]_vars

\* A detect_damage_batch call with an image list or with a bucket (the bucket
\* is not read when a list is given); the vehicle and the set order only
\* shape the merged text and are left at None and at one order here.
InitBatchLive ==
    /\ BatchInit
    /\ fn = "detect_damage_batch"
    /\ bucket_url # <<>> => image_urls = <<>>
    /\ vehicle_info = <<>>
    /\ hash_order = CHOOSE o \in HashOrders : TRUE
    /\ MergeIdle
    /\ MatchIdle
    /\ EstimateIdle
    /\ RetrieveIdle
    /\ PipelineIdle
    /\ IndexIdle
    /\ AnalyzeIdle

\* Some step of the call is eventually taken while one is possible: the
\* orchestrating thread and the pool threads keep running, and every fetch
\* and every inference call eventually returns or raises.
BatchFairness == WF_vars(BatchNext)

SpecBatchLive == InitBatchLive /\ [][BatchNext]_vars /\ BatchFairness

InitMerge ==
    /\ MergeInit
    /\ BatchIdle
    /\ MatchIdle
    /\ EstimateIdle
    /\ RetrieveIdle
    /\ PipelineIdle
    /\ IndexIdle
    /\ AnalyzeIdle

MergeNext ==
    \/ MergeCall
    \/ RestartProcess
    \/ LlmMergeCall

SpecMerge == InitMerge /\ [][MergeNext]_vars

InitMatch ==
    /\ MatchInit
    /\ MergeIdle
    /\ vehicle_info = <<>>
    /\ hash_order = CHOOSE o \in HashOrders : TRUE
    /\ BatchIdle
    /\ EstimateIdle
    /\ RetrieveIdle
    /\ PipelineIdle
    /\ IndexIdle
    /\ AnalyzeIdle

MatchNext == MatchPart

SpecMatch == InitMatch /\ [][MatchNext]_vars

InitEstimate ==
    /\ EstimateInit
    /\ BatchIdle
    /\ MergeIdle
    /\ vehicle_info = <<>>
    /\ hash_order = CHOOSE o \in HashOrders : TRUE
    /\ MatchIdle
    /\ RetrieveIdle
    /\ PipelineIdle
    /\ IndexIdle
    /\ AnalyzeIdle

EstimateNext == GenerateEstimate

SpecEstimate == InitEstimate /\ [][EstimateNext]_vars

InitRetrieve ==
    /\ RetrieveInit
    /\ BatchIdle
    /\ MergeIdle
    /\ vehicle_info = <<>>
    /\ hash_order = CHOOSE o \in HashOrders : TRUE
    /\ MatchIdle
    /\ EstimateIdle
    /\ PipelineIdle
    /\ IndexIdle
    /\ AnalyzeIdle

RetrieveNext == RetrieveSimilarChunks

SpecRetrieve == InitRetrieve /\ [][RetrieveNext]_vars

InitPipeline ==
    /\ PipelineInit
    /\ BatchIdle
    /\ MergeIdle
    /\ vehicle_info = <<>>
    /\ hash_order = CHOOSE o \in HashOrders : TRUE
    /\ MatchIdle
    /\ EstimateIdle
    /\ RetrieveIdle
    /\ IndexIdle
    /\ AnalyzeIdle

SpecPipeline == InitPipeline /\ [][PipelineNext]_vars

InitIndex ==
    /\ IndexInit
    /\ BatchIdle
    /\ MergeIdle
    /\ vehicle_info = <<>>
    /\ hash_order = CHOOSE o \in HashOrders : TRUE
    /\ MatchIdle
    /\ EstimateIdle
    /\ RetrieveIdle
    /\ PipelineIdle
    /\ AnalyzeIdle

SpecIndex == InitIndex /\ [][IndexNext]_vars

InitAnalyze ==
    /\ AnalyzeInit
    /\ BatchIdle
    /\ MergeIdle
    /\ vehicle_info = <<>>
    /\ hash_order = CHOOSE o \in HashOrders : TRUE
    /\ MatchIdle
    /\ EstimateIdle
    /\ RetrieveIdle
    /\ PipelineIdle
    /\ IndexIdle

SpecAnalyze == InitAnalyze /\ [][AnalyzeNext]_vars

(***************************************************************************)
(* Properties of the narrative mergers (checked under SpecMerge).          *)
(* The returned string is read back: after the fragment "damage to: " come *)
(* the groups, separated by "; " and closed by ".".  A group is            *)
(* part, " (", severity, " ", type, ", ", type, ..., ")".                  *)
(***************************************************************************)
RECURSIVE SplitOnSep(_, _, _)
SplitOnSep(text, sep, group) ==
    IF text = <<>>
    THEN <<group>>
    ELSE IF Head(text) = sep
         THEN <<group>> \o SplitOnSep(Tail(text), sep, <<>>)
         ELSE SplitOnSep(Tail(text), sep, Append(group, Head(text)))

RenderedGroups(text) ==
    LET at == CHOOSE i \in 1..Len(text) : text[i] = "damage to: "
    IN  SplitOnSep(SubSeq(text, at + 1, Len(text) - 1), "; ", <<>>)

GroupTypes(g) == {g[k] : k \in {k \in 5..(Len(g) - 1) : (k - 5) % 2 = 0}}

GroupSet(text) ==
    LET gs == RenderedGroups(text)
    IN  {[part |-> gs[k][1], severity |-> gs[k][3], types |-> GroupTypes(gs[k])] :
            k \in 1..Len(gs)}

Perms(seq) ==
    {[i \in 1..Len(seq) |-> seq[f[i]]] : f \in Permutations(1..Len(seq))}

SeverityRank(sev) ==
    CASE sev = "Minor" -> 1 [] sev = "Medium" -> 2 [] sev = "Major" -> 3 [] OTHER -> 0

SeveritiesOf(part) ==
    {damages[i].severity : i \in {i \in 1..Len(damages) : damages[i].part = part}}

Merged == ncalls >= 1 /\ damages # <<>>

\* C5: for a non-empty list of findings whose severities are Minor, Medium
\* or Major, every part of the list is rendered by _merge_damage_descriptions
\* with the greatest severity (Major > Medium > Minor) among its findings.
C5_WorstSeverityPerPart ==
    (Merged /\ \A i \in 1..Len(damages) :
                   damages[i].severity \in {"Minor", "Medium", "Major"}) =>
        \A i \in 1..Len(damages) :
            /\ \E g \in GroupSet(merged) : g.part = damages[i].part
            /\ \A g \in GroupSet(merged) :
                  g.part = damages[i].part =>
                      /\ g.severity \in SeveritiesOf(g.part)
                      /\ \A sev \in SeveritiesOf(g.part) :
                            SeverityRank(sev) <= SeverityRank(g.severity)

\* a part with a Minor finding followed by a Major one was rendered
C5_Witness ==
    /\ Merged
    /\ Len(damages) = 2
    /\ damages[1].part = damages[2].part
    /\ damages[1].severity = "Minor"
    /\ damages[2].severity = "Major"
    /\ \E g \in GroupSet(merged) : g.severity = "Major"

\* C6: called with an empty list of findings, with or without vehicle
\* context, either merger returns its fixed no-damage sentinel string; it
\* returns no empty string and does not raise.
C6_EmptyGivesSentinel ==
    /\ (ncalls >= 1 /\ damages = <<>>) =>
          /\ merged = <<"No visible damage detected.">>
          /\ merged # <<>>
    /\ (llm_status \notin {"none", "idle"} /\ damages = <<>>) =>
          /\ llm_status = "returned"
          /\ llm_merged = <<"No visible damage detected on the vehicle.">>
          /\ llm_merged # <<>>

\* _merge_damage_descriptions was called with no finding and a vehicle
C6_Witness ==
    /\ ncalls >= 1
    /\ damages = <<>>
    /\ vehicle_info # <<>>

\* C7: every reordering of the findings makes _merge_damage_descriptions
\* render the same groups: the same parts, each with the same severity and
\* the same set of damage types, in any process.
C7_GroupsIgnoreOrder ==
    Merged =>
        \A p \in Perms(damages) : \A order \in HashOrders :
            GroupSet(_merge_damage_descriptions(p, vehicle_info, order))
                = GroupSet(merged)

\* findings of two parts were merged, and the reversed list is rendered as
\* a different string
C7_Witness ==
    /\ Merged
    /\ Len(damages) = 2
    /\ damages[1].part # damages[2].part
    /\ \E p \in Perms(damages) :
          _merge_damage_descriptions(p, vehicle_info, hash_order) # merged

FirstIndex(part) ==
    CHOOSE i \in 1..Len(damages) :
        /\ damages[i].part = part
        /\ \A j \in 1..(i - 1) : damages[j].part # part

\* C8: _merge_damage_descriptions returns the same string whenever it is
\* called with the same list of findings and the same vehicle context; each
\* part is rendered once, and the groups come in the order in which their
\* parts first occur in the list.
C8_SameInputSameString ==
    /\ ncalls >= 2 => merged = prev_merged
    /\ Merged =>
          LET gs == RenderedGroups(merged)
          IN  /\ {gs[k][1] : k \in 1..Len(gs)} =
                    {damages[i].part : i \in 1..Len(damages)}
              /\ \A a, b \in 1..Len(gs) :
                    a < b => FirstIndex(gs[a][1]) < FirstIndex(gs[b][1])

(***************************************************************************)
(* Properties of the part matcher (checked under SpecMatch).               *)
(***************************************************************************)
Returned == match_pc = "returned"

PartLower == Strip(Lower(part_description))

KeyAt(i) == pss_parts_map[i].key

NoExactMatch == \A i \in 1..Len(pss_parts_map) : KeyAt(i) # PartLower

SomeTokenOverlap ==
    \E i \in 1..Len(pss_parts_map) : TokenOverlap(KeyAt(i), PartLower)

\* C9: when the lower-cased, trimmed description equals a key of a non-empty
\* index, _match_part_with_pss returns the id stored under that key,
\* whatever other keys the index holds and wherever they stand.
C9_ExactMatchReturnsItsId ==
    (Returned /\ pss_parts_map # <<>>) =>
        \A i \in 1..Len(pss_parts_map) :
            KeyAt(i) = PartLower => match_result = pss_parts_map[i].id

\* a case variant of the second key was looked up while the first key is a
\* substring of it
C9_Witness ==
    /\ Returned
    /\ Len(pss_parts_map) = 2
    /\ KeyAt(2) = PartLower
    /\ part_description # PartLower
    /\ SubstringMatch(KeyAt(1), PartLower)
    /\ match_result = pss_parts_map[2].id

\* C10 as stated: for a description with no exact match, if some key shares
\* at least 2 whitespace tokens with it, the returned id is that of the first
\* such key in insertion order, also when an earlier key matches the
\* description by substring containment only.
C10_TokenOverlapBeatsSubstring ==
    (Returned /\ part_description # <<>> /\ NoExactMatch /\ SomeTokenOverlap) =>
        \E i \in 1..Len(pss_parts_map) :
            /\ TokenOverlap(KeyAt(i), PartLower)
            /\ \A j \in 1..(i - 1) : ~TokenOverlap(KeyAt(j), PartLower)
            /\ match_result = pss_parts_map[i].id

\* C10 as amended: for such a description the returned id is that of the
\* first key in insertion order that shares at least 2 tokens with the
\* description or is a substring or a superstring of it; an earlier key that
\* matches by substring only wins over a later key that shares 2 tokens.
C10_FirstKeyMatchingEitherWay ==
    (Returned /\ part_description # <<>> /\ NoExactMatch /\ SomeTokenOverlap) =>
        \E i \in 1..Len(pss_parts_map) :
            /\ TokenOverlap(KeyAt(i), PartLower) \/ SubstringMatch(KeyAt(i), PartLower)
            /\ \A j \in 1..(i - 1) :
                  /\ ~TokenOverlap(KeyAt(j), PartLower)
                  /\ ~SubstringMatch(KeyAt(j), PartLower)
            /\ match_result = pss_parts_map[i].id

\* the first key matches by substring only, the second shares 2 tokens, and
\* the id of the first key was returned
C10_Witness ==
    /\ Returned
    /\ Len(pss_parts_map) = 2
    /\ NoExactMatch
    /\ ~TokenOverlap(KeyAt(1), PartLower)
    /\ SubstringMatch(KeyAt(1), PartLower)
    /\ TokenOverlap(KeyAt(2), PartLower)
    /\ match_result = pss_parts_map[1].id
    /\ pss_parts_map[1].id # pss_parts_map[2].id

SharedTokens(i) ==
    Cardinality(Range(Split(KeyAt(i))) \cap Range(Split(PartLower)))

\* C11: a key that shares exactly 2 whitespace tokens with the lower-cased
\* description is a match (the call returns an id, and the id of that key
\* when it is the only key); when every key shares fewer than 2 tokens with
\* the description and is neither a substring nor a superstring of it, the
\* call returns none.
C11_TokenThresholdIsTwo ==
    (Returned /\ part_description # <<>> /\ pss_parts_map # <<>>) =>
        /\ \A i \in 1..Len(pss_parts_map) :
              SharedTokens(i) = 2 =>
                  /\ match_result # None
                  /\ Len(pss_parts_map) = 1 => match_result = pss_parts_map[i].id
        /\ (\A i \in 1..Len(pss_parts_map) :
                /\ SharedTokens(i) < 2
                /\ ~SubstringMatch(KeyAt(i), PartLower))
              => match_result = None

\* the only key shares exactly 2 tokens with the description, in another
\* order, so that neither contains the other, and its id was returned
C11_Witness ==
    /\ Returned
    /\ Len(pss_parts_map) = 1
    /\ SharedTokens(1) = 2
    /\ ~SubstringMatch(KeyAt(1), PartLower)
    /\ match_result = pss_parts_map[1].id

\* a key shares exactly 1 token with the description, contains it nowhere,
\* and the call returned none
C11_WitnessBelow ==
    /\ Returned
    /\ Len(pss_parts_map) >= 1
    /\ SharedTokens(1) = 1
    /\ \A i \in 1..Len(pss_parts_map) : ~SubstringMatch(KeyAt(i), PartLower)
    /\ match_result = None

\* C12: with an empty description or an empty index _match_part_with_pss
\* returns none (it has no exception path) and its loop visits no key.
C12_NothingToMatchGivesNone ==
    (Returned /\ (part_description = <<>> \/ pss_parts_map = <<>>)) =>
        /\ match_result = None
        /\ match_scanned = 0

\* the description is empty while the index holds keys, and none came back
C12_Witness ==
    /\ Returned
    /\ part_description = <<>>
    /\ Len(pss_parts_map) = MaxKeys
    /\ match_result = None
    /\ match_scanned = 0

\* the index is empty while the description is not
C12_WitnessEmptyIndex ==
    /\ Returned
    /\ part_description # <<>>
    /\ pss_parts_map = <<>>
    /\ match_result = None

(***************************************************************************)
(* Properties of the batch runs (checked under SpecBatch).                 *)
(***************************************************************************)
Count(x, seq) == Cardinality({i \in 1..Len(seq) : seq[i] = x})

Finished(i) == futures[i].state \in {"done", "collected"}

DetectDone == pc = "done" /\ fn = "detect_damage_batch"

\* C1: a detect_damage_batch run over a non-empty list of N references
\* returns success with exactly N detection results, and every reference
\* occurs among the results' image_url as often as in the input list,
\* whichever fetches and inference calls failed.
C1_OneResultPerReference ==
    (DetectDone /\ all_image_urls # <<>>) =>
        /\ response.success
        /\ Len(response.detections) = Len(all_image_urls)
        /\ \A u \in ImageRefs \cup {""} :
              Count(u, [i \in 1..Len(response.detections) |->
                            response.detections[i].image_url])
                 = Count(u, all_image_urls)

\* a finished run over a duplicated reference in which one task failed and
\* the other found damage
C1_Witness ==
    /\ DetectDone
    /\ Len(all_image_urls) = 2
    /\ all_image_urls[1] = all_image_urls[2]
    /\ \E i, j \in 1..Len(futures) :
          /\ futures[i].error # ""
          /\ futures[j].error = ""
    /\ response.images_with_damage = 1

\* C2: in every state of a batch run (either function) the number of tasks
\* whose fetch has started and whose result is not yet set is at most
\* max_workers.
C2_InFlightBounded == Cardinality(InFlight) <= max_workers

\* the pool is full while a further task waits in the queue
C2_Witness ==
    /\ Len(all_image_urls) > max_workers
    /\ Cardinality(InFlight) = max_workers
    /\ Queued # {}

\* C3: a finished task of _detect_damage_worker always holds a value, never
\* an exception, and when its fetch or its inference call failed the value
\* is the sentinel for its reference: side "unknown", has_damage false, no
\* damages, confidence 0.
C3_WorkerNeverRaises ==
    fn = "detect_damage_batch" =>
        \A i \in 1..Len(futures) :
            Finished(i) =>
                /\ futures[i].outcome.kind = "value"
                /\ futures[i].error # "" =>
                      futures[i].outcome.value =
                          [image_url |-> futures[i].s3_url, side |-> "unknown",
                           has_damage |-> FALSE, damages |-> <<>>,
                           confidence |-> 0]

\* one task ended on a failed inference call, another on a failed fetch
C3_Witness ==
    /\ fn = "detect_damage_batch"
    /\ \E i, j \in 1..Len(futures) :
          /\ Finished(i) /\ futures[i].error = "inference"
          /\ Finished(j) /\ futures[j].error = "fetch"

\* the two ways a batch run has no image to work on
EmptyListNoBucket == image_urls = << <<>> >> /\ ~TruthyStr(bucket_url)

EmptyBucketListing ==
    listing # <<>> /\ ~listing[1].raised /\ listing[1].urls = <<>>

NoImagesFoundErrors ==
    {"No images found", "No images found in the specified location"}

\* C4 as stated: a run over an empty list (an empty image_urls list with no
\* bucket, or an empty bucket listing) ends with success = false and a
\* "no images found" error, and no task is started.
C4_EmptyIsNoImagesFound ==
    (pc = "done" /\ (EmptyListNoBucket \/ EmptyBucketListing)) =>
        /\ ~response.success
        /\ response.error \in NoImagesFoundErrors
        /\ futures = <<>>

\* C4 as amended: such a run ends with success = false and starts no task,
\* and no run returns success with zero results; the error is "no images
\* found" for an empty bucket listing, and "Either bucket_url or image_urls
\* must be provided" for an empty image_urls list with no bucket.
C4_EmptyInputFails ==
    /\ (pc = "done" /\ (EmptyListNoBucket \/ EmptyBucketListing)) =>
          /\ ~response.success
          /\ futures = <<>>
          /\ response.error =
                IF EmptyBucketListing
                THEN IF fn = "detect_damage_batch"
                     THEN "No images found"
                     ELSE "No images found in the specified location"
                ELSE "Either bucket_url or image_urls must be provided"
    /\ (pc = "done" /\ response.success) =>
          /\ response.total_images >= 1
          /\ fn = "detect_damage_batch" => Len(response.detections) >= 1

\* a run given an empty image_urls list and no bucket has returned
C4_Witness ==
    /\ pc = "done"
    /\ EmptyListNoBucket
    /\ response.error = "Either bucket_url or image_urls must be provided"

(***************************************************************************)
(* Properties of the estimate synthesizer (checked under SpecEstimate).    *)
(* Operation j of category i of the result was built from operation j of   *)
(* category i of the inference output.                                     *)
(***************************************************************************)
EstimateReturned == est_pc = "returned" /\ est_inference # <<>>

OperationSlots ==
    {<<i, j>> \in (1..Len(est_result)) \X (1..(MaxOperations + 1)) :
        j <= Len(est_result[i].operations)}

ResultOp(s) == est_result[s[1]].operations[s[2]]

RawOp(s) == est_inference[1][s[1]].operations[s[2]]

\* C13: after post-processing, an operation whose Operation is not exactly
\* "Repair" has no LaborHours, also when the inference output carried
\* LaborHours on it.
C13_NoHoursUnlessRepair ==
    EstimateReturned =>
        \A s \in OperationSlots :
            ResultOp(s).Operation # "Repair" => ResultOp(s).LaborHours = <<>>

\* a "Remove / Replace" operation came with hours and was returned without
C13_Witness ==
    /\ EstimateReturned
    /\ \E s \in OperationSlots :
          /\ RawOp(s).Operation = <<"Remove / Replace">>
          /\ RawOp(s).LaborHours.kind = "float"
          /\ ResultOp(s).Operation = "Remove / Replace"
          /\ ResultOp(s).LaborHours = <<>>

\* C14 as stated: every returned operation has LaborHours if and only if
\* its Operation is "Repair"; a returned repair always carries hours.
C14_HoursIffRepair ==
    EstimateReturned =>
        \A s \in OperationSlots :
            ResultOp(s).LaborHours # <<>> <=> ResultOp(s).Operation = "Repair"

\* C14 as amended: a returned operation has LaborHours if and only if its
\* Operation is "Repair" and the inference output gave it a number of hours,
\* and then the hours are that number.
C14_HoursIffRepairWithHours ==
    EstimateReturned =>
        \A s \in OperationSlots :
            /\ ResultOp(s).LaborHours # <<>> <=>
                  (ResultOp(s).Operation = "Repair" /\ RawOp(s).LaborHours.kind = "float")
            /\ ResultOp(s).LaborHours # <<>> =>
                  ResultOp(s).LaborHours = <<RawOp(s).LaborHours.value>>

\* a repair came without hours and was returned without hours
C14_Witness ==
    /\ EstimateReturned
    /\ \E s \in OperationSlots :
          /\ ResultOp(s).Operation = "Repair"
          /\ RawOp(s).LaborHours.kind = "absent"
          /\ ResultOp(s).LaborHours = <<>>

ByDescription(s) == _match_part_with_pss(PartDescription(RawOp(s)), est_pss_map)

ByCategory(s) == _match_part_with_pss(est_result[s[1]].category, est_pss_map)

\* C15: for a returned operation whose raw PartId is absent or empty, the
\* final PartId is the id the part matcher finds for the operation's
\* Description, else the id it finds for the category name, else the empty
\* string; it is never null.
C15_BackFillDescriptionThenCategory ==
    EstimateReturned =>
        \A s \in OperationSlots :
            /\ ResultOp(s).PartId # None
            /\ RawPartId(RawOp(s)) = "" =>
                  ResultOp(s).PartId =
                      IF ByDescription(s) # None THEN ByDescription(s)
                      ELSE IF ByCategory(s) # None THEN ByCategory(s)
                      ELSE ""

\* description and category match different parts, and the description's
\* part was taken
C15_Witness ==
    /\ EstimateReturned
    /\ \E s \in OperationSlots :
          /\ RawPartId(RawOp(s)) = ""
          /\ ByDescription(s) # None
          /\ ByCategory(s) # None
          /\ ByDescription(s) # ByCategory(s)
          /\ ResultOp(s).PartId = ByDescription(s)

\* only the category matches a part
C15_WitnessCategory ==
    /\ EstimateReturned
    /\ \E s \in OperationSlots :
          /\ RawPartId(RawOp(s)) = ""
          /\ ByDescription(s) = None
          /\ ResultOp(s).PartId = ByCategory(s)
          /\ ByCategory(s) # None

\* nothing matches and the part id is the empty string
C15_WitnessUnresolved ==
    /\ EstimateReturned
    /\ est_pss_map # <<>>
    /\ \E s \in OperationSlots :
          /\ RawPartId(RawOp(s)) = ""
          /\ ByDescription(s) = None
          /\ ByCategory(s) = None
          /\ ResultOp(s).PartId = ""

\* C16: when the inference call made by generate_estimate fails, the call
\* does not raise and returns an estimate with an empty category map.
C16_InferenceFailureGivesEmptyEstimate ==
    (est_pc \in {"returned", "raised"} /\ est_invocations = 1 /\ est_inference = <<>>) =>
        /\ est_pc = "returned"
        /\ est_result = EmptyEstimate

\* the model was called once, failed, and the call returned
C16_Witness ==
    /\ est_pc = "returned"
    /\ est_invocations = 1
    /\ est_inference = <<>>
    /\ est_pss_map # <<>>
    /\ est_result = EmptyEstimate

(***************************************************************************)
(* Properties of the retrieval client (checked under SpecRetrieve).        *)
(***************************************************************************)
RetrieveEnded == ret_pc \in {"returned", "raised"}

\* C17: retrieve_similar_chunks never raises; when the vector index is
\* unreachable, or when the search call fails, it returns the empty list,
\* for every query text and top_k.
C17_RetrievalNeverRaises ==
    RetrieveEnded =>
        /\ ret_pc = "returned"
        /\ (~ret_connected \/ ret_search = <<>>) => ret_chunks = <<>>

\* the index answered, the search gave a hit without payload next to a
\* complete one, and the call returned the empty list
C17_Witness ==
    /\ ret_pc = "returned"
    /\ ret_connected
    /\ ret_searches = 1
    /\ ret_search # <<>>
    /\ \E i, j \in 1..MaxHits :
          /\ i <= Len(ret_search[1])
          /\ j <= Len(ret_search[1])
          /\ ~ConvertibleHit(ret_search[1][i])
          /\ ConvertibleHit(ret_search[1][j])
    /\ ret_chunks = <<>>

\* the index was unreachable and no search was made
C17_WitnessUnreachable ==
    /\ ret_pc = "returned"
    /\ ~ret_connected
    /\ ret_query # <<>>
    /\ ret_searches = 0
    /\ ret_chunks = <<>>

\* C18: called with an empty query text, retrieve_similar_chunks returns the
\* empty list, also when the index is reachable and holds cases.
C18_EmptyQueryGivesNoChunks ==
    (RetrieveEnded /\ ret_query = <<>>) => ret_chunks = <<>>

(***************************************************************************)
(* Properties of the estimate pipeline (checked under SpecPipeline).       *)
(***************************************************************************)
PipelineDone == pipe_pc = "done"

\* C19: in every run of run_rag_pipeline the stages are Merging, Retrieving,
\* Synthesizing, Done, in this order and each once, and the retrieval call
\* and the synthesis inference call are each made exactly once.
C19_StagesOnceInOrder ==
    PipelineDone =>
        /\ stages = <<"Merging", "Retrieving", "Synthesizing", "Done">>
        /\ pipe_calls.retrieve = 1
        /\ pipe_calls.inference = 1

C21_NoInputIsHardFailure ==
    (PipelineDone /\ request.merged_damage_description \in {<<>>, << <<>> >>}
                  /\ AllRequestDamages(request) = <<>>) =>
        /\ rag_response.success = FALSE
        /\ rag_response.error # <<>>
        /\ rag_response.generated_estimate = <<>>
        /\ pipe_calls.retrieve = 0
        /\ pipe_calls.inference = 0

\* the request was read, its narrative is the empty string and its list of
\* findings is empty, and the run ended for want of a search query
C21_Witness ==
    /\ PipelineDone
    /\ request.pss_data = "dict"
    /\ request.merged_damage_description = << <<>> >>
    /\ request.damage_descriptions = << <<>> >>
    /\ stages = <<"Merging", "Done">>
    /\ rag_response = RAGFailure("No damage description provided for retrieval")
    /\ pipe_calls = NoCalls

(***************************************************************************)
(* Properties of the catalog indexer (checked under SpecIndex).            *)
(***************************************************************************)
Indexed == idx_pc \in {"indexed", "matched"}

\* the part details of the document in traversal order
Details == IF idx_pss_data = <<>> THEN <<>> ELSE Traversal(idx_pss_data[1])

\* a part detail that has what an entry needs
Indexable(d) == d.kind = "detail" /\ d.Id # ""

\* C22: every key of the map _extract_pss_parts builds is lower-cased and
\* whitespace-trimmed, so a part whose FullDescription differs from a
\* description only by surrounding whitespace and case is under the key the
\* part matcher's exact-match step looks up.
C22_KeysLowerAndTrimmed ==
    Indexed =>
        /\ \A i \in 1..Len(idx_parts_map) :
              idx_parts_map[i].key = Strip(Lower(idx_parts_map[i].key))
        /\ \A i \in 1..Len(idx_parts_map) :
              HasKey(idx_parts_map, Strip(Lower(idx_parts_map[i].full_description)))

\* the details the traversal reached: those before the first malformed entry
RECURSIVE ReachedFrom(_, _)
ReachedFrom(details, i) ==
    IF i > Len(details) \/ details[i].kind = "malformed"
    THEN <<>>
    ELSE <<details[i]>> \o ReachedFrom(details, i + 1)

Reached == ReachedFrom(Details, 1)

Primaries(k) ==
    {i \in 1..Len(Reached) :
        /\ Reached[i].FullDescription # <<>>
        /\ Reached[i].Id # ""
        /\ Lower(Reached[i].FullDescription) = k}

Secondaries(k) ==
    {i \in 1..Len(Reached) :
        /\ Reached[i].Description # <<>>
        /\ Reached[i].Id # ""
        /\ Lower(Reached[i].Description) = k}

Least(S) == CHOOSE i \in S : \A j \in S : i <= j

Greatest(S) == CHOOSE i \in S : \A j \in S : i >= j

\* C23: the secondary key (the lower-cased part description) never replaces
\* an entry of the map: a key that some full description gave holds the
\* entry of the last such full description, whatever part descriptions
\* equal it, and a key that only part descriptions gave holds the entry of
\* the first of them.
C23_SecondaryKeyNeverReplaces ==
    Indexed =>
        \A i \in 1..Len(idx_parts_map) :
            LET k == idx_parts_map[i].key
                origin == IF Primaries(k) # {}
                          THEN Greatest(Primaries(k))
                          ELSE Least(Secondaries(k))
            IN  /\ Primaries(k) \cup Secondaries(k) # {}
                /\ idx_parts_map[i].id = Reached[origin].Id
                /\ idx_parts_map[i].full_description = Reached[origin].FullDescription

\* a later part detail has the key of an entry as its part description and
\* another id, and the entry kept its id
C23_Witness ==
    /\ Indexed
    /\ \E i \in 1..Len(idx_parts_map) :
          \E j \in Secondaries(idx_parts_map[i].key) :
              /\ Reached[j].Id # idx_parts_map[i].id
              /\ \E o \in Primaries(idx_parts_map[i].key) \cup Secondaries(idx_parts_map[i].key) :
                    o < j /\ Reached[o].Id = idx_parts_map[i].id

\* C24: a malformed entry of the document is the only thing skipped; every
\* well-formed part detail with a full description and an id is in the map
\* under its key, also when it comes after the malformed entry.
C24_OnlyMalformedSkipped ==
    Indexed =>
        \A i \in 1..Len(Details) :
            (Indexable(Details[i]) /\ Details[i].FullDescription # <<>>) =>
                HasKey(idx_parts_map, Lower(Details[i].FullDescription))

(***************************************************************************)
(* Claims about the per-image analyzer.                                    *)
(***************************************************************************)
AnalyzeEnded == an_pc \in {"returned", "raised"}

\* a human description that says something
HumanGiven == an_human # <<>> /\ an_human[1] # ""

\* C25: the analyzer builds the context-aware prompt whenever a vehicle
\* context, a human description or both are supplied (a human description
\* without a vehicle included), and the bare prompt only when neither is.
C25_ContextPromptWheneverContextGiven ==
    AnalyzeEnded =>
        (an_prompt.variant = "context" <=> (an_vehicle # <<>> \/ HumanGiven))

(***************************************************************************)
(* Concurrency of detect_damage_batch (checked under SpecBatch).           *)
(***************************************************************************)
\* task i is owned by a pool thread, or waits for one
Unfinished(i) == futures[i].state \in {"queued", "fetching", "inferring"}

\* the step is the orchestrator consuming the completed future i
Consumes(i) ==
    /\ pc = "collect"
    /\ futures[i].state = "done"
    /\ futures'[i].state = "collected"
    /\ detections' = Append(detections, futures[i].outcome.value)

\* the step is made by the worker of task i
WorkerStep(i) == Unfinished(i) /\ futures'[i] # futures[i]

\* C26: in detect_damage_batch, under every interleaving, the result list
\* changes only when the orchestrating thread consumes a completed future,
\* by appending that future's result; a step of a worker task changes
\* nothing but the state of its own future; so at return every submitted
\* task has exactly one result in the list.
C26_OnlyOrchestratorWritesResults ==
    /\ [][fn = "detect_damage_batch" =>
            /\ detections' # detections =>
                  \E i \in 1..Len(futures) : Consumes(i)
            /\ \A i \in 1..Len(futures) :
                  WorkerStep(i) =>
                      /\ UNCHANGED <<detections, all_image_urls, pc, response,
                                     listing, max_workers, vehicle_info>>
                      /\ \A j \in 1..Len(futures) \ {i} : futures'[j] = futures[j]
         ]_vars
    /\ [](DetectDone /\ response.success =>
            /\ Len(detections) = Len(futures)
            /\ \A i \in 1..Len(futures) :
                  Count(futures[i].outcome.value, detections)
                     = Cardinality({j \in 1..Len(futures) :
                           futures[j].outcome.value = futures[i].outcome.value}))

\* two tasks ran at the same time and the second one submitted was consumed
\* first
C26_Witness ==
    /\ fn = "detect_damage_batch"
    /\ pc = "collect"
    /\ Len(futures) = 2
    /\ futures[1].s3_url # futures[2].s3_url
    /\ futures[1].state = "inferring"
    /\ futures[2].state = "collected"
    /\ Len(detections) = 1
    /\ detections[1].image_url = futures[2].s3_url


\* C27: provided every fetch and every inference call eventually returns or
\* fails, detect_damage_batch eventually returns, and in the state in which
\* it has returned, with success or with an error, none of its tasks is
\* queued or in flight.
C27_BatchReturnsDrained ==
    /\ (fn = "detect_damage_batch" => <>(pc = "done"))
    /\ [](DetectDone => (Queued = {} /\ InFlight = {}))

\* a returned run in which two tasks shared one pool thread, so that one
\* waited in the queue while the other ran
C27_Witness ==
    /\ DetectDone
    /\ response.success
    /\ max_workers = 1
    /\ Len(futures) = 2
    /\ \A i \in 1..Len(futures) : futures[i].state = "collected"


\* the results of the tasks in the order of the image list
ResultsInListOrder == [i \in 1..Len(futures) |-> futures[i].outcome.value]

\* C28: for a fixed image list and fixed per-image results, the
\* merged_damage_description of detect_damage_batch is the same string for
\* every order in which the tasks complete: it is the string merged from the
\* results taken in the order of the image list.
C28_MergedIndependentOfCompletionOrder ==
    (DetectDone /\ response.success) =>
        response.merged_damage_description =
            _merge_damage_descriptions(AllDamages(ResultsInListOrder),
                                       vehicle_info, hash_order)


(***************************************************************************)
(* Severity strings outside Minor, Medium, Major (under SpecMerge).        *)
(***************************************************************************)
\* C30: for every non-empty list of findings, whatever their severity
\* strings ("Unknown" is what the analyzer fills in for a missing one), the
\* severity that _merge_damage_descriptions renders for a part is the
\* severity of at least one finding of that part.
C30_RenderedSeverityIsCarried ==
    Merged =>
        \A g \in GroupSet(merged) : g.severity \in SeveritiesOf(g.part)


(***************************************************************************)
(* Descriptions of whitespace only (under SpecMatch).                      *)
(***************************************************************************)
\* the description holds no character that is not whitespace
Blank(s) == \A k \in 1..Len(s) : IsSpace(s[k])

\* C29: against every non-empty index, _match_part_with_pss returns none for
\* every description without a non-whitespace character, such as " ": a
\* description that trims to the empty string resolves to no catalog id.
C29_BlankDescriptionGivesNone ==
    (Returned /\ Blank(part_description) /\ pss_parts_map # <<>>) =>
        match_result = None

====
